---------------------------- MODULE Spec2Model ----------------------------
(***************************************************************************)
(* Verification model of rkuros/transcribe2:                               *)
(*   - the text chunker and the hierarchical text processor of             *)
(*     StrandsAgentManager (src/src/main/strands-agent-manager.ts);        *)
(*   - the subprocess runner of PythonAudioProcessingManager               *)
(*     (src/unnamed/part_007, lines 289-949).                              *)
(*                                                                         *)
(* A JavaScript string is represented sparsely: its length and the map of  *)
(* the (0-based) positions that hold a character other than the filler     *)
(* character.  Two strings are equal iff their representations are equal.  *)
(***************************************************************************)
EXTENDS Integers, Sequences, FiniteSets, TLC

(***************************************************************************)
(* Bounds of the model.                                                    *)
(***************************************************************************)
\* longest text handed to the chunker on its own
MaxLen == 12
\* largest number of non-filler characters in a text
MaxMarks == 2
\* largest chunk size handed to the chunker on its own
MaxChunkSize == 10
\* largest number of sentence terminators in a text handed to the processor
ProcMaxMarks == 1
\* largest number of stdout lines written by the separation subprocess
MaxSepLines == 2
\* largest number of stdout lines written by the recognition subprocess
MaxTrLines == 2
\* number of clock steps in one timeout window of the separation stage
TicksPerWindow == 3

(***************************************************************************)
(* Program constants of the hierarchical text processor.                   *)
(***************************************************************************)
\* summarizeText / createWeeklyReport: `text.length > 30000`
LargeTextThreshold == 30000
\* processLargeText / processLargeTextForWeeklyReport: `text.length < 30000`
SmallTextThreshold == 30000
\* splitTextIntoChunks(text, 25000)
ProcChunkSize == 25000

(***************************************************************************)
(* Characters.  The three sentence terminators searched by                 *)
(* splitTextIntoChunks are the ideographic full stop and the full-width    *)
(* exclamation and question marks.                                         *)
(***************************************************************************)
Filler == "x"
FullStop == "U+3002"
Exclamation == "U+FF01"
Question == "U+FF1F"
Terminators == {FullStop, Exclamation, Question}

(***************************************************************************)
(* String primitives (String.prototype.length / indexOf / substring and    *)
(* the + operator) on the sparse representation.                           *)
(***************************************************************************)
MinOf(S) == CHOOSE m \in S : \A n \in S : m <= n

Min2(a, b) == IF a <= b THEN a ELSE b

MkText(n, m) == [length |-> n, marks |-> m]

EmptyText == MkText(0, << >>)

\* indexOf looking only behind the position it is given
indexOf_afterFrom(text, ch, from) ==
  LET hits == {i \in DOMAIN text.marks : i > from /\ text.marks[i] = ch}
  IN IF hits = {} THEN -1 ELSE MinOf(hits)

\* text.indexOf(ch, from): first position >= from that holds ch, or -1
indexOf(text, ch, from) ==
  LET hits == {i \in DOMAIN text.marks : i >= from /\ text.marks[i] = ch}
  IN IF hits = {} THEN -1 ELSE MinOf(hits)

\* text.substring(a, b) for 0 <= a <= b <= text.length
substring(text, a, b) ==
  LET kept == {i \in DOMAIN text.marks : i >= a /\ i < b}
  IN MkText(b - a, [j \in {i - a : i \in kept} |-> text.marks[j + a]])

\* s + t
concat(s, t) ==
  MkText(s.length + t.length,
         [i \in (DOMAIN s.marks) \cup {j + s.length : j \in DOMAIN t.marks} |->
            IF i < s.length THEN s.marks[i] ELSE t.marks[i - s.length]])

RECURSIVE concatAll(_)
concatAll(chunks) ==
  IF chunks = << >> THEN EmptyText
  ELSE concat(Head(chunks), concatAll(Tail(chunks)))

(***************************************************************************)
(* splitTextIntoChunks (strands-agent-manager.ts:96-129).                  *)
(***************************************************************************)
\* Body of one loop iteration, lines 102-122: the end index of the chunk
\* that starts at startIndex.  The test `sentenceEnd > endIndex + chunkSize/5`
\* is on real numbers; for integers it is 5*sentenceEnd > 5*endIndex + chunkSize.
\* A mutant: the look-ahead is not limited to chunkSize/5.
ChunkEnd_unboundedLookahead(text, startIndex, chunkSize) ==
  LET endIndex == Min2(startIndex + chunkSize, text.length)
      hits == {i \in DOMAIN text.marks : i >= endIndex /\ text.marks[i] \in Terminators}
  IN IF endIndex < text.length /\ hits # {} THEN MinOf(hits) + 1 ELSE endIndex

ChunkEnd(text, startIndex, chunkSize) ==
  LET endIndex == Min2(startIndex + chunkSize, text.length)
      nextSentenceEnd == indexOf(text, FullStop, endIndex)
      nextExclamationEnd == indexOf(text, Exclamation, endIndex)
      nextQuestionEnd == indexOf(text, Question, endIndex)
      s0 == -1
      s1 == IF nextSentenceEnd # -1 THEN nextSentenceEnd + 1 ELSE s0
      s2 == IF nextExclamationEnd # -1 /\ (s1 = -1 \/ nextExclamationEnd < s1)
            THEN nextExclamationEnd + 1 ELSE s1
      s3 == IF nextQuestionEnd # -1 /\ (s2 = -1 \/ nextQuestionEnd < s2)
            THEN nextQuestionEnd + 1 ELSE s2
      sentenceEnd == IF s3 = -1 \/ 5 * s3 > 5 * endIndex + chunkSize
                     THEN endIndex ELSE s3
  IN IF endIndex < text.length THEN sentenceEnd ELSE endIndex

\* The while loop, lines 100-126, from a given startIndex.
\* A mutant: the next chunk starts one character after the cut.
RECURSIVE SplitFrom_skipsCutChar(_, _, _)
SplitFrom_skipsCutChar(text, startIndex, chunkSize) ==
  IF startIndex < text.length
  THEN LET endIndex == ChunkEnd(text, startIndex, chunkSize)
       IN <<substring(text, startIndex, endIndex)>>
            \o SplitFrom_skipsCutChar(text, endIndex + 1, chunkSize)
  ELSE << >>

RECURSIVE SplitFrom(_, _, _)
SplitFrom(text, startIndex, chunkSize) ==
  IF startIndex < text.length
  THEN LET endIndex == ChunkEnd(text, startIndex, chunkSize)
       IN <<substring(text, startIndex, endIndex)>>
            \o SplitFrom(text, endIndex, chunkSize)
  ELSE << >>

\* splitTextIntoChunks pushing what is left of the text once more after its
\* loop
splitTextIntoChunks_pushesRest(text, chunkSize) ==
  SplitFrom(text, 0, chunkSize) \o <<substring(text, text.length, text.length)>>

splitTextIntoChunks(text, chunkSize) == SplitFrom(text, 0, chunkSize)

(***************************************************************************)
(* Inputs of the chunker: every text of at most MaxLen characters with at  *)
(* most MaxMarks non-filler characters, every chunk size 1..MaxChunkSize.  *)
(***************************************************************************)
MarkSets(n) == {P \in SUBSET (0 .. n - 1) : Cardinality(P) <= MaxMarks}

TextsOfLength(n) ==
  UNION {{MkText(n, m) : m \in [P -> Terminators]} : P \in MarkSets(n)}

SmallTexts == UNION {TextsOfLength(n) : n \in 0 .. MaxLen}

ChunkSizes == 1 .. MaxChunkSize

(***************************************************************************)
(* Values of the hierarchical text processor.                              *)
(***************************************************************************)
\* private modelId = 'us.anthropic.claude-3-7-sonnet-20250219-v1:0'
DefaultModelId == "us.anthropic.claude-3-7-sonnet-20250219-v1:0"

\* (agentId, agentAliasId) pairs of the manager; '' is "not set"
ManagerAgentConfigs == {<<"", "">>, <<"AGENT1", "ALIAS1">>, <<"AGENT1", "">>}

\* options.agentId / options.agentAliasId of summarizeText
OptionAgentConfigs == {<<"", "">>, <<"AGENT2", "ALIAS2">>, <<"", "ALIAS2">>}

\* options.length of summarizeText; '' is "absent"
OptionLengths == {"", "long"}

\* options.model of createWeeklyReport; '' is "absent"
OptionModels == {"", "anthropic.claude-v2"}

\* texts handed to the processor: lengths around the two thresholds and
\* the chunk size, terminators around the first hard cut and its window
ProcLengths == {5, 29999, 30000, 30001, 40000, 60000}

ProcMarkPositions == {25000, 29999, 30000}

ProcTextsOfLength(n) ==
  UNION {{MkText(n, m) : m \in [P -> Terminators]} :
           P \in {Q \in SUBSET {i \in ProcMarkPositions : i < n} :
                    Cardinality(Q) <= ProcMaxMarks}}

ProcTexts == UNION {ProcTextsOfLength(n) : n \in ProcLengths}

\* what the agent runtime does with an InvokeAgentCommand
AgentResponses == {"throws", "completion", "invalid"}

\* what the model runtime does with an InvokeModelCommand:
\*   throws      send() rejects or the body is not JSON
\*   content     body.content[0].text holds the answer
\*   completion  body.completion holds the answer
\*   neither     the body has neither
\*   noText      body.content[0] is there but has no text, and there is no
\*               body.completion
DirectResponses == {"throws", "content", "completion", "neither", "noText"}

\* the text produced by the k-th backend invocation of the call
BackendOutput(k) == [producedBy |-> k]

\* '要約の生成中にエラーが発生しました' / 'Weekly Reportの生成中にエラーが発生しました'
Placeholder == [producedBy |-> 0]

\* undefined, the value of a field that is not there
Undefined == [producedBy |-> -1]

\* combinedText: the fixed preamble followed by chunkSummaries.join(divider)
CombinedText(chunkSummaries) == [combined |-> chunkSummaries]

(***************************************************************************)
(* Values of the local pipeline (PythonAudioProcessingManager,             *)
(* part_007:289-949).  A stdout line is abstracted to what the runner      *)
(* looks at: whether it is blank, whether JSON.parse accepts it, whether   *)
(* the parsed value is an object, and the fields success, progress,        *)
(* vocal_path, result and error of that object.                            *)
(***************************************************************************)
\* kind: "blank", "text" (JSON.parse throws), "primitive" (a JSON number,
\* string, boolean or null) or "object"; success: "absent", "true", "false"
MkLine(kind, success, progress, vocal_path, result, error) ==
  [kind |-> kind, success |-> success, progress |-> progress,
   vocal_path |-> vocal_path, result |-> result, error |-> error]

BlankLine == MkLine("blank", "absent", FALSE, "", "", "")
TextLine == MkLine("text", "absent", FALSE, "", "", "")
PrimitiveLine == MkLine("primitive", "absent", FALSE, "", "", "")
\* {"progress": {...}}
ProgressLine == MkLine("object", "absent", TRUE, "", "", "")
\* {"success": true, "vocal_path": p}
VocalLine(p) == MkLine("object", "true", FALSE, p, "", "")
\* {"success": true}
BareSuccessLine == MkLine("object", "true", FALSE, "", "", "")
\* {"success": false, "error": e}
FailureLine(e) == MkLine("object", "false", FALSE, "", "", e)
\* {"success": true, "result": {"text": t, "segments": [...]}}
TranscriptLine(t) == MkLine("object", "true", FALSE, "", t, "")

\* the value of lastValidJson when the scan finds nothing (null)
NoJson == MkLine("none", "absent", FALSE, "", "", "")

InputFile == "/in/audio.wav"
VocalFile == "/out/vocals.wav"
MissingFile == "/out/missing.wav"

\* fs.existsSync(path) for the paths a token may name
ExistingFiles == {InputFile, VocalFile}

SepLines == {PrimitiveLine, ProgressLine, VocalLine(VocalFile),
             VocalLine(MissingFile), BareSuccessLine, FailureLine("demucs failed")}

TrLines == {TextLine, ProgressLine, TranscriptLine("T1"), TranscriptLine("T2"),
            FailureLine("whisper failed")}

\* const timeoutMs = 3 * 60 * 1000, line 374
SeparationTimeoutMs == 3 * 60 * 1000

\* the time that passes in one step of the clock
TickMs == SeparationTimeoutMs \div TicksPerWindow

\* the code argument of 'close': 0, a non-zero exit code, or null (signal)
ExitCodes == {0, 1, -1}

\* stdout.split('\n'): the lines written, then the empty string that follows
\* the last newline
SplitLines(stdout) == Append(stdout, BlankLine)

\* the backward scan, lines 470-487 and 633-649, from index i down to 1:
\* blank lines are skipped, a line that JSON.parse rejects is skipped, and
\* `'success' in parsedJson` throws for a primitive, which is caught.
\* A mutant: the scan runs forward, so the first qualifying token wins.
RECURSIVE ScanForward(_, _)
ScanForward(lines, i) ==
  IF i > Len(lines) THEN NoJson
  ELSE IF lines[i].kind = "object" /\ lines[i].success # "absent" THEN lines[i]
  ELSE ScanForward(lines, i + 1)

ScanBackward_firstWins(lines, i) == ScanForward(lines, 1)

RECURSIVE ScanBackward(_, _)
ScanBackward(lines, i) ==
  IF i < 1 THEN NoJson
  ELSE IF lines[i].kind = "blank" THEN ScanBackward(lines, i - 1)
  ELSE IF lines[i].kind = "text" THEN ScanBackward(lines, i - 1)
  ELSE IF lines[i].kind = "primitive" THEN ScanBackward(lines, i - 1)
  ELSE IF lines[i].success # "absent" THEN lines[i]
  ELSE ScanBackward(lines, i - 1)

LastValidJson(stdout) ==
  LET lines == SplitLines(stdout) IN ScanBackward(lines, Len(lines))

\* what the 'close' handler of separateAudio passes to resolve, lines 428-534,
\* with the branch that produced it.
\* A mutant: the vocal path is not checked on disk.
SeparationCloseOutcome_skipsExistsCheck(code, stdout, filePath) ==
  IF code # 0 THEN [value |-> filePath, branch |-> "close:exit-code"]
  ELSE LET result == LastValidJson(stdout)
       IN IF result = NoJson THEN [value |-> filePath, branch |-> "close:no-json"]
          ELSE IF result.success = "true" /\ result.vocal_path # ""
               THEN [value |-> result.vocal_path, branch |-> "close:ok"]
               ELSE [value |-> filePath, branch |-> "close:incomplete"]

SeparationCloseOutcome(code, stdout, filePath) ==
  IF code # 0 THEN [value |-> filePath, branch |-> "close:exit-code"]
  ELSE LET result == LastValidJson(stdout)
       IN IF result = NoJson THEN [value |-> filePath, branch |-> "close:no-json"]
          ELSE IF result.success = "true" /\ result.vocal_path # ""
               THEN IF result.vocal_path \in ExistingFiles
                    THEN [value |-> result.vocal_path, branch |-> "close:ok"]
                    ELSE [value |-> filePath, branch |-> "close:missing-file"]
               ELSE [value |-> filePath, branch |-> "close:incomplete"]

\* the soft-fail TranscriptionResult of transcribeAudio and processAudio
SoftFail(text, model) ==
  [text |-> text, segments |-> "none", modelUsed |-> model,
   audioSeparationUsed |-> FALSE]

\* A mutant of the 'close' handler of transcribeAudio: the exit code is not
\* looked at, so a token written before a failing exit is honoured.
TranscriptionCloseValue_ignoresExitCode(code, stdout, filePath, model, originalFilePath) ==
  LET result == LastValidJson(stdout)
  IN IF result = NoJson THEN SoftFail("E:no-json", model)
     ELSE IF result.success = "true" /\ result.result # ""
          THEN [text |-> result.result, segments |-> result.result,
                modelUsed |-> model,
                audioSeparationUsed |-> (filePath # originalFilePath)]
          ELSE SoftFail(IF result.error # "" THEN result.error
                        ELSE "E:unknown", model)

\* what the 'close' handler of transcribeAudio passes to resolve, lines 605-720.
\* A mutant: without an authoritative token the result is left empty.
TranscriptionCloseValue_emptyWithoutToken(code, stdout, filePath, model, originalFilePath) ==
  IF code # 0 THEN SoftFail("E:exit-code", model)
  ELSE LET result == LastValidJson(stdout)
       IN IF result = NoJson THEN SoftFail("", model)
          ELSE IF result.success = "true" /\ result.result # ""
               THEN [text |-> result.result, segments |-> result.result,
                     modelUsed |-> model,
                     audioSeparationUsed |-> (filePath # originalFilePath)]
               ELSE SoftFail(IF result.error # "" THEN result.error
                             ELSE "E:unknown", model)

TranscriptionCloseValue(code, stdout, filePath, model, originalFilePath) ==
  IF code # 0 THEN SoftFail("E:exit-code", model)
  ELSE LET result == LastValidJson(stdout)
       IN IF result = NoJson THEN SoftFail("E:no-json", model)
          ELSE IF result.success = "true" /\ result.result # ""
               THEN [text |-> result.result, segments |-> result.result,
                     modelUsed |-> model,
                     audioSeparationUsed |-> (filePath # originalFilePath)]
               ELSE SoftFail(IF result.error # "" THEN result.error
                             ELSE "E:unknown", model)

(***************************************************************************)
(* State.                                                                  *)
(***************************************************************************)
VARIABLES
  ckText,      \* chunker: the text argument
  ckSize,      \* chunker: the chunkSize argument
  ckChunks,    \* chunker: the returned array
  ckPc,        \* chunker: "ready" before the call, "returned" after it
  manager,     \* StrandsAgentManager fields: agentId, agentAliasId, modelId, clients
  tpPc,        \* processor call: "idle", "awaitAgent", "awaitDirect", "returned", "thrown"
  tpCall,      \* processor call: [op, text, options]
  tpAgent,     \* processor call: the locals agentId, agentAliasId
  tpLevel,     \* processor call: "single", "chunk" or "merge" (the pending direct call)
  tpChunks,    \* processor call: the local chunks
  tpSummaries, \* processor call: the local chunkSummaries
  tpSplits,    \* number of splitTextIntoChunks invocations of the call
  tpLog,       \* backend invocations of the call, in the order issued
  tpReplies,   \* what the backend answered to each invocation, in the same order
  tpResult,    \* the value returned, or the error thrown, by the call
  fsScripts,   \* local pipeline: which helper scripts exist on disk
  originalFilePath, \* PythonAudioProcessingManager.originalFilePath
  lpPc,        \* processAudio: "idle", "separating", "recognizing", "done"
  lpCall,      \* processAudio: [filePath, options]
  audioFilePath, \* processAudio: the local audioFilePath
  sep,         \* the separateAudio call: promise, subprocess, timer, stdout
  tr,          \* the transcribeAudio call: promise, subprocess, stdout
  progressSent, \* progress updates forwarded by handlePythonOutput, by stage
  lpResult,    \* what processAudio returned
  runStages,   \* local run: the stages entered, one entry per stage call made
  isProcessing, \* renderer: the isProcessing state of AppContent
  otherRun,    \* a later run on the same manager: "none", "running", "returned"
  transcriptionResult, \* renderer: the transcriptionResult state of AppContent
  progress,    \* renderer: the stage of the progress state of AppContent
  cancelled,   \* renderer: the cancel button was pressed since the start
  aws,         \* AWSAudioProcessingManager fields: region, bucketName, s3Client, transcribeClient
  createdBuckets, \* AWSAudioProcessingManager.createdBuckets (static)
  cpPc,        \* cloud run: where its processAudio call is
  cpCall,      \* cloud run: [filePath, options]
  cpAttempt,   \* cloud run: the loop variable attempt of pollJobCompletion
  cpJobName,   \* cloud run: the local jobName of transcribeAudio
  cpS3Uri,     \* cloud run: uploadResult.s3Uri
  cpLog,       \* cloud run: the requests it sent other than status queries, in order
  cpQueries,   \* cloud run: the number of status queries it sent
  cpQueryRegions, \* cloud run: the regions of the clients its status queries went through
  cpSlept,     \* cloud run: the milliseconds its polling loop has slept
  cpTerminal,  \* cloud run: the answer that ended its polling (a terminal job
               \* status, or "throws" for a status query that threw), with the
               \* provider's reason and the queries sent until then
  cpFetched,   \* cloud run: how its request for the result object ended
  cpProgress,  \* cloud run: the progress updates it published, in order
  cpResult,    \* cloud run: what processAudio returned or threw
  hdResult,    \* cloud run: what the 'transcribe-audio' handler returned or threw
  cpOthers,    \* the options of the other processAudio calls made on the cloud manager, in order
  chManager,   \* progress channel: the manager it belongs to, "python" or "aws"
  chCallbacks, \* progress channel: this.callbacks, each listener by what it does
  chEvents,    \* progress channel: per event published, the listeners subscribed then
  chDelivered, \* progress channel: the calls of listeners, in order
  chWindow,    \* progress channel: the events sent to the main window
  chRaised,    \* progress channel: the last publish threw to its caller
  dateNow,     \* cloud runs: what Date.now() returns, in milliseconds
  cloudRuns    \* cloud runs: per run its file name, its position and the names it chose

chunkerVars == <<ckText, ckSize, ckChunks, ckPc>>

procVars == <<manager, tpPc, tpCall, tpAgent, tpLevel, tpChunks, tpSummaries,
              tpSplits, tpLog, tpReplies, tpResult>>

appVars == <<isProcessing, otherRun, transcriptionResult, progress, cancelled>>

localVars == <<fsScripts, originalFilePath, lpPc, lpCall, audioFilePath, sep, tr,
               progressSent, lpResult, runStages, isProcessing, otherRun,
               transcriptionResult, progress, cancelled>>

cloudVars == <<aws, createdBuckets, cpPc, cpCall, cpAttempt, cpJobName, cpS3Uri,
               cpLog, cpQueries, cpQueryRegions, cpSlept, cpTerminal, cpFetched, cpProgress,
          cpResult,
          hdResult,
               cpOthers>>

chanVars == <<chManager, chCallbacks, chEvents, chDelivered, chWindow, chRaised>>

namesVars == <<dateNow, cloudRuns>>

vars == <<ckText, ckSize, ckChunks, ckPc, manager, tpPc, tpCall, tpAgent,
          tpLevel, tpChunks, tpSummaries, tpSplits, tpLog, tpReplies, tpResult,
          fsScripts, originalFilePath, lpPc, lpCall, audioFilePath, sep, tr,
          progressSent, lpResult, runStages, isProcessing, otherRun,
          transcriptionResult, progress, cancelled,
          aws, createdBuckets, cpPc, cpCall, cpAttempt, cpJobName, cpS3Uri,
          cpLog, cpQueries, cpQueryRegions, cpSlept, cpTerminal, cpFetched, cpProgress,
          cpResult,
          hdResult,
          cpOthers,
          chManager, chCallbacks, chEvents, chDelivered, chWindow, chRaised,
          dateNow, cloudRuns>>

NoCall == [op |-> "none"]

NoResult == [kind |-> "none"]

(***************************************************************************)
(* The chunker on its own: one call of splitTextIntoChunks.                *)
(***************************************************************************)
ChunkerInit ==
  /\ ckText \in SmallTexts
  /\ ckSize \in ChunkSizes
  /\ ckChunks = << >>
  /\ ckPc = "ready"

ChunkerOff ==
  /\ ckText = EmptyText
  /\ ckSize = 1
  /\ ckChunks = << >>
  /\ ckPc = "off"

\* one call of splitTextIntoChunks(ckText, ckSize)
CallSplit ==
  /\ ckPc = "ready"
  /\ ckChunks' = splitTextIntoChunks(ckText, ckSize)
  /\ ckPc' = "returned"
  /\ UNCHANGED <<ckText, ckSize>>
  /\ UNCHANGED procVars
  /\ UNCHANGED <<chanVars, namesVars>>
  /\ UNCHANGED localVars
  /\ UNCHANGED cloudVars

(***************************************************************************)
(* The hierarchical text processor: one call of summarizeText or           *)
(* createWeeklyReport on a StrandsAgentManager.  Every `await` of a        *)
(* backend is a step boundary: the invocation is appended to tpLog when    *)
(* it is issued, and a later step delivers what the backend answered.      *)
(***************************************************************************)
\* constructor(mainWindow, agentId?, agentAliasId?), lines 21-25
ProcInit ==
  /\ \E cfg \in ManagerAgentConfigs :
        manager = [agentId |-> cfg[1], agentAliasId |-> cfg[2],
                   modelId |-> DefaultModelId, clients |-> FALSE]
  /\ tpPc = "idle"
  /\ tpCall = NoCall
  /\ tpAgent = <<"", "">>
  /\ tpLevel = "none"
  /\ tpChunks = << >>
  /\ tpSummaries = << >>
  /\ tpSplits = 0
  /\ tpLog = << >>
  /\ tpReplies = << >>
  /\ tpResult = NoResult

ProcOff ==
  /\ manager = [agentId |-> "", agentAliasId |-> "",
                modelId |-> DefaultModelId, clients |-> FALSE]
  /\ tpPc = "off"
  /\ tpCall = NoCall
  /\ tpAgent = <<"", "">>
  /\ tpLevel = "none"
  /\ tpChunks = << >>
  /\ tpSummaries = << >>
  /\ tpSplits = 0
  /\ tpLog = << >>
  /\ tpReplies = << >>
  /\ tpResult = NoResult

\* this.bedrockAgentClient.send(new InvokeAgentCommand(...)), lines 242-249
invokeStrandsAgent(agentId, agentAliasId, text, request) ==
  /\ tpPc' = "awaitAgent"
  /\ tpLevel' = "single"
  /\ tpLog' = Append(tpLog, [backend |-> "agent", level |-> "single",
                             input |-> text, target |-> <<agentId, agentAliasId>>,
                             request |-> request])

\* the body of the InvokeModelCommand, lines 275-287 and 485-497: the
\* anthropic messages envelope, whatever the model identifier
Payload(modelId) == "messages"

\* this.bedrockRuntimeClient.send(new InvokeModelCommand(...)),
\* lines 270-296 (summary) and 479-506 (weekly report)
InvokeModel(level, text, request, modelId) ==
  /\ tpPc' = "awaitDirect"
  /\ tpLevel' = level
  /\ tpLog' = Append(tpLog, [backend |-> "direct", level |-> level,
                             input |-> text, target |-> modelId,
                             request |-> request, payload |-> Payload(modelId)])

\* summarizeWithBedrockDirect always uses this.modelId (line 291);
\* createWeeklyReportWithBedrockDirect uses options.model || this.modelId (line 480).
\* A mutant: the pinned model is ignored.
DirectModelId_ignoresPin(call) == manager.modelId

DirectModelId(call) ==
  IF call.op = "report" /\ call.options.model # ""
  THEN call.options.model
  ELSE manager.modelId

\* what a chunk-level call asks for: SummarizationLength.SHORT (line 153);
\* the weekly-report prompt has no length, tmpOptions = {...options} (line 444)
ChunkRequest(call) == IF call.op = "summary" THEN "short" ELSE call.request

\* the split and the first iteration of the chunk loop, lines 143-154 and
\* 434-448 (with no chunk at all the loop is skipped, lines 161-166, 455-460)
SplitAndInvokeFirst(call) ==
  LET chunks == splitTextIntoChunks(call.text, ProcChunkSize)
  IN /\ tpChunks' = chunks
     /\ tpSummaries' = << >>
     /\ tpSplits' = tpSplits + 1
     /\ IF chunks # << >>
        THEN InvokeModel("chunk", chunks[1], ChunkRequest(call), DirectModelId(call))
        ELSE InvokeModel("merge", CombinedText(<< >>), call.request,
                         DirectModelId(call))

\* processLargeText, lines 132-156, and processLargeTextForWeeklyReport,
\* lines 423-450, up to the first backend invocation
processLargeText(call) ==
  IF call.text.length < SmallTextThreshold
  THEN /\ InvokeModel("single", call.text, call.request, DirectModelId(call))
       /\ UNCHANGED <<tpChunks, tpSummaries, tpSplits>>
  ELSE SplitAndInvokeFirst(call)

\* `text.length > 30000`, lines 195 and 542
IsLargeText(text) == text.length > LargeTextThreshold

\* the body of the outer try of summarizeText (lines 193-225) and of
\* createWeeklyReport (lines 540-572), up to the first backend invocation.
\* A mutant: every text longer than one chunk is split.
ProcessText_splitsAboveChunkSize(call, agentId, agentAliasId, useAgent) ==
  /\ tpCall' = call
  /\ tpAgent' = <<agentId, agentAliasId>>
  /\ manager' = [manager EXCEPT !.clients = TRUE]
  /\ tpResult' = tpResult
  /\ tpReplies' = tpReplies
  /\ IF call.text.length > ProcChunkSize
     THEN SplitAndInvokeFirst(call)
     ELSE /\ UNCHANGED <<tpChunks, tpSummaries, tpSplits>>
          /\ IF useAgent
             THEN invokeStrandsAgent(agentId, agentAliasId, call.text, call.request)
             ELSE InvokeModel("single", call.text, call.request, DirectModelId(call))

ProcessText(call, agentId, agentAliasId, useAgent) ==
  /\ tpCall' = call
  /\ tpAgent' = <<agentId, agentAliasId>>
  /\ manager' = [manager EXCEPT !.clients = TRUE]
  /\ tpResult' = tpResult
  /\ tpReplies' = tpReplies
  /\ IF IsLargeText(call.text)
     THEN processLargeText(call)
     ELSE /\ UNCHANGED <<tpChunks, tpSummaries, tpSplits>>
          /\ IF useAgent
             THEN invokeStrandsAgent(agentId, agentAliasId, call.text, call.request)
             ELSE InvokeModel("single", call.text, call.request, DirectModelId(call))

\* summarizeText(text, options), lines 179-231
summarizeText(text, options) ==
  /\ tpPc = "idle"
  /\ LET agentId == IF options.agentId # "" THEN options.agentId ELSE manager.agentId
         agentAliasId == IF options.agentAliasId # "" THEN options.agentAliasId
                         ELSE manager.agentAliasId
         length == IF options.length # "" THEN options.length ELSE "medium"
     IN ProcessText([op |-> "summary", text |-> text, options |-> options,
                     request |-> length],
                    agentId, agentAliasId,
                    agentId # "" /\ agentAliasId # "")
  /\ UNCHANGED chunkerVars
  /\ UNCHANGED <<chanVars, namesVars>>
  /\ UNCHANGED localVars
  /\ UNCHANGED cloudVars

\* createWeeklyReport(text, options), lines 531-578
createWeeklyReport(text, options) ==
  /\ tpPc = "idle"
  /\ LET agentId == IF options.model # "" THEN "" ELSE manager.agentId
         agentAliasId == IF options.model # "" THEN "" ELSE manager.agentAliasId
     IN ProcessText([op |-> "report", text |-> text, options |-> options,
                     request |-> "weeklyReport"],
                    agentId, agentAliasId,
                    agentId # "" /\ agentAliasId # "" /\ options.model = "")
  /\ UNCHANGED chunkerVars
  /\ UNCHANGED <<chanVars, namesVars>>
  /\ UNCHANGED localVars
  /\ UNCHANGED cloudVars

\* `return {...}` of the call
Return(output, modelUsed) ==
  /\ tpPc' = "returned"
  /\ tpResult' = [kind |-> "value", originalText |-> tpCall.text,
                  output |-> output, modelUsed |-> modelUsed]

\* the outer catch, `throw new Error(...)`, lines 227-230 and 574-577
Throw(k) ==
  /\ tpPc' = "thrown"
  /\ tpResult' = [kind |-> "error", op |-> tpCall.op, cause |-> k]

\* `response.completion && typeof response.completion === 'string'`, line 252;
\* send() throwing and an invalid response both end in the catch of line 257.
\* A mutant: any response that does not throw is taken as the answer.
AgentSucceeds_acceptsInvalid(r) == r # "throws"

AgentSucceeds(r) == r = "completion"

\* the agent runtime answers the pending InvokeAgentCommand: lines 249-260
\* of invokeStrandsAgent, then lines 209-225 / 556-572 of the caller
AgentResponds(r) ==
  /\ tpPc = "awaitAgent"
  /\ tpReplies' = Append(tpReplies, r)
  /\ IF AgentSucceeds(r)
     THEN /\ Return(BackendOutput(Len(tpLog)),
                    [backend |-> "Amazon Bedrock Strands Agent",
                     id |-> tpAgent[1], chunked |-> FALSE])
          /\ UNCHANGED <<tpLevel, tpLog>>
     ELSE /\ InvokeModel("single", tpCall.text, tpCall.request, DirectModelId(tpCall))
          /\ tpResult' = tpResult
  /\ UNCHANGED <<manager, tpCall, tpAgent, tpChunks, tpSummaries, tpSplits>>
  /\ UNCHANGED chunkerVars
  /\ UNCHANGED <<chanVars, namesVars>>
  /\ UNCHANGED localVars
  /\ UNCHANGED cloudVars

\* the catch of the direct call rethrows whatever send / JSON.parse threw,
\* lines 314-317 and 524-527, at every level.
\* A mutant: a failed chunk-level call is tolerated.
DirectFails_toleratesChunkFailure(r, level) == r = "throws" /\ level # "chunk"

DirectFails(r, level) == r = "throws"

\* the loop condition `i < chunks.length` after chunk i (1-based) is done,
\* lines 149 and 440.
\* A mutant: the loop stops one chunk early.
MoreChunks_stopsEarly(i, chunks) == i + 1 < Len(chunks)

MoreChunks(i, chunks) == i < Len(chunks)

\* the summary / report extracted from the response body, lines 299-304, 509-514
ExtractOutput(r, k) ==
  IF r \in {"content", "completion"} THEN BackendOutput(k)
  ELSE IF r = "noText" THEN Undefined
  ELSE Placeholder

\* the model runtime answers the pending InvokeModelCommand: lines 296-317 /
\* 506-527 of the direct call, then the caller's continuation
\* (lines 155-175 / 449-469 in chunked mode)
ModelResponds(r) ==
  /\ tpPc = "awaitDirect"
  /\ tpReplies' = Append(tpReplies, r)
  /\ LET k == Len(tpLog)
         output == ExtractOutput(r, k)
         modelUsed == [backend |-> "Amazon Bedrock", id |-> tpLog[k].target,
                       chunked |-> FALSE]
     IN IF DirectFails(r, tpLevel)
        THEN /\ Throw(k)
             /\ UNCHANGED <<tpLevel, tpLog, tpSummaries>>
        ELSE CASE tpLevel = "single" ->
                    /\ Return(output, modelUsed)
                    /\ UNCHANGED <<tpLevel, tpLog, tpSummaries>>
               [] tpLevel = "chunk" ->
                    LET chunkSummaries == Append(tpSummaries, output)
                        i == Len(chunkSummaries)
                    IN /\ tpSummaries' = chunkSummaries
                       /\ tpResult' = tpResult
                       /\ IF MoreChunks(i, tpChunks)
                          THEN InvokeModel("chunk", tpChunks[i + 1],
                                           ChunkRequest(tpCall), DirectModelId(tpCall))
                          ELSE InvokeModel("merge", CombinedText(chunkSummaries),
                                           tpCall.request, DirectModelId(tpCall))
               [] tpLevel = "merge" ->
                    /\ Return(output, [modelUsed EXCEPT !.chunked = TRUE])
                    /\ UNCHANGED <<tpLevel, tpLog, tpSummaries>>
  /\ UNCHANGED <<manager, tpCall, tpAgent, tpChunks, tpSplits>>
  /\ UNCHANGED chunkerVars
  /\ UNCHANGED <<chanVars, namesVars>>
  /\ UNCHANGED localVars
  /\ UNCHANGED cloudVars

SummarizeOptions ==
  {[agentId |-> cfg[1], agentAliasId |-> cfg[2], length |-> l] :
     cfg \in OptionAgentConfigs, l \in OptionLengths}

WeeklyReportOptions == {[model |-> m] : m \in OptionModels}

(***************************************************************************)
(* The local pipeline: one processAudio call on a                          *)
(* PythonAudioProcessingManager.  The subprocess of a stage delivers its   *)
(* events ('data' once per stdout line, 'error', 'close') as separate      *)
(* steps; the separation timer fires as a step of its own while armed.     *)
(* A promise is settled by the first resolve only.                         *)
(***************************************************************************)
\* a stage that has not been called
\* waited: the time since the timer was last armed; quiet: the time the
\* subprocess has been running since it was spawned or last wrote a
\* progress token
NoStage ==
  [promise |-> "none", value |-> "", settledBy |-> "none", proc |-> "none",
   killed |-> FALSE, timer |-> "none", stdout |-> << >>, code |-> 0,
   filePath |-> "", waited |-> 0, quiet |-> 0]

\* a transcribeAudio call that has not been made: its promise will hold a
\* TranscriptionResult
NoTrStage ==
  [NoStage EXCEPT !.value = [text |-> "", segments |-> "none", modelUsed |-> "",
                             audioSeparationUsed |-> FALSE]]

NoOptions == [enableAudioSeparation |-> FALSE, model |-> ""]

LocalOff ==
  /\ fsScripts = {}
  /\ originalFilePath = ""
  /\ lpPc = "off"
  /\ lpCall = [filePath |-> "", options |-> NoOptions]
  /\ audioFilePath = ""
  /\ sep = NoStage
  /\ tr = NoTrStage
  /\ progressSent = << >>
  /\ lpResult = NoResult
  /\ runStages = << >>
  /\ isProcessing = FALSE
  /\ otherRun = "none"
  /\ transcriptionResult = NoResult
  /\ progress = "separation"
  /\ cancelled = FALSE

\* constructor, lines 294-318, and the field initialiser of line 754
LocalInit ==
  /\ fsScripts \in SUBSET {"separate.py", "transcribe.py"}
  /\ originalFilePath = ""
  /\ lpPc = "idle"
  /\ lpCall = [filePath |-> "", options |-> NoOptions]
  /\ audioFilePath = ""
  /\ sep = NoStage
  /\ tr = NoTrStage
  /\ progressSent = << >>
  /\ lpResult = NoResult
  /\ runStages = << >>
  /\ isProcessing = FALSE
  /\ otherRun = "none"
  /\ transcriptionResult = NoResult
  /\ progress = "separation"
  /\ cancelled = FALSE

\* Resolve with every resolve settling the promise anew
Resolve_lastWins(stage, v, by) ==
  [stage EXCEPT !.promise = "resolved", !.value = v, !.settledBy = by]

\* resolve(v) on the promise of a stage: only the first resolve settles it
Resolve(stage, v, by) ==
  IF stage.promise = "pending"
  THEN [stage EXCEPT !.promise = "resolved", !.value = v, !.settledBy = by]
  ELSE stage

\* separateAudio up to its return, lines 352-403: the script check, then the
\* promise executor (spawn, which may throw synchronously, and setTimeout)
separateAudio(filePath, spawnThrows) ==
  IF "separate.py" \notin fsScripts
  THEN [NoStage EXCEPT !.promise = "resolved", !.value = filePath,
                       !.settledBy = "scriptMissing", !.filePath = filePath]
  ELSE IF spawnThrows
  THEN [NoStage EXCEPT !.promise = "resolved", !.value = filePath,
                       !.settledBy = "spawnThrew", !.filePath = filePath]
  ELSE [NoStage EXCEPT !.promise = "pending", !.proc = "running",
                       !.timer = "armed", !.filePath = filePath]

\* transcribeAudio up to its return, lines 558-603
transcribeAudio(filePath, model, spawnThrows) ==
  IF "transcribe.py" \notin fsScripts
  THEN [NoTrStage EXCEPT !.promise = "resolved",
                       !.value = SoftFail("E:script-missing", model),
                       !.settledBy = "scriptMissing", !.filePath = filePath]
  ELSE IF spawnThrows
  THEN [NoTrStage EXCEPT !.promise = "resolved",
                       !.value = SoftFail("E:unexpected", model),
                       !.settledBy = "spawnThrew", !.filePath = filePath]
  ELSE [NoTrStage EXCEPT !.promise = "pending", !.proc = "running",
                       !.filePath = filePath]

\* processAudio(filePath, options) up to its first await, lines 320-338
processAudio(filePath, options, spawnThrows) ==
  /\ lpPc \in {"idle", "rendererSeparating"}
  /\ runStages' = Append(runStages, IF options.enableAudioSeparation
                                    THEN "separation" ELSE "recognition")
  /\ lpCall' = [filePath |-> filePath, options |-> options]
  /\ originalFilePath' = filePath
  /\ audioFilePath' = filePath
  /\ IF options.enableAudioSeparation
     THEN /\ sep' = separateAudio(filePath, spawnThrows)
          /\ tr' = tr
          /\ lpPc' = "separating"
     ELSE /\ sep' = sep
          /\ tr' = transcribeAudio(filePath, options.model, spawnThrows)
          /\ lpPc' = "recognizing"
  /\ UNCHANGED <<fsScripts, progressSent, lpResult>>
  /\ UNCHANGED <<chunkerVars, procVars, chanVars, namesVars, cloudVars>>

\* handlePythonOutput(dataStr), lines 918-948: a chunk that holds an object
\* with a truthy progress field is forwarded to the renderer and the callbacks
handlePythonOutput(stage, line) ==
  IF line.kind = "object" /\ line.progress
  THEN Append(progressSent, stage)
  ELSE progressSent

\* handleProgress of the renderer, App.tsx:83-88: a forwarded chunk becomes
\* the progress state
handleProgress(sent) ==
  /\ progress' = IF sent # progressSent THEN "update" ELSE progress
  /\ UNCHANGED <<isProcessing, otherRun, transcriptionResult, cancelled>>

\* dataStr.includes('"progress"'), line 412.
\* A mutant: every chunk of output re-arms the timer.
MentionsProgress_anyChunk(line) == TRUE

MentionsProgress(line) == line.progress

\* TimerDue with a delay one clock step short of timeoutMs
TimerDue_oneStepEarly(stage) ==
  stage.timer = "armed" /\ stage.waited >= SeparationTimeoutMs - TickMs

\* the timer is armed and its delay has elapsed
TimerDue(stage) == stage.timer = "armed" /\ stage.waited >= SeparationTimeoutMs

\* time passes while the separation subprocess runs; a due timer fires
\* before more time passes
Tick ==
  /\ sep.proc = "running"
  /\ ~ sep.killed
  /\ ~ TimerDue(sep)
  /\ sep.quiet <= SeparationTimeoutMs
  /\ sep' = [sep EXCEPT !.quiet = @ + TickMs,
                        !.waited = IF sep.timer = "armed" THEN @ + TickMs ELSE @]
  /\ UNCHANGED <<runStages, fsScripts, originalFilePath, lpPc, lpCall, audioFilePath, tr,
                 progressSent, lpResult>>
  /\ UNCHANGED <<chunkerVars, procVars, chanVars, namesVars, cloudVars>>
  /\ UNCHANGED appVars

\* stdout 'data' of the separation subprocess, lines 405-422: the chunk is
\* appended and a chunk with a progress token re-arms the timer
SepData(line) ==
  /\ sep.proc = "running"
  /\ ~ sep.killed
  /\ Len(sep.stdout) < MaxSepLines
  /\ sep' = [sep EXCEPT !.stdout = Append(@, line),
                        !.timer = IF MentionsProgress(line) THEN "armed" ELSE @,
                        !.waited = IF MentionsProgress(line) THEN 0 ELSE @,
                        !.quiet = IF line.kind = "object" /\ line.progress
                                  THEN 0 ELSE @]
  /\ progressSent' = handlePythonOutput("separation", line)
  /\ handleProgress(progressSent')
  /\ UNCHANGED <<runStages, fsScripts, originalFilePath, lpPc, lpCall, audioFilePath, tr, lpResult>>
  /\ UNCHANGED <<chunkerVars, procVars, chanVars, namesVars, cloudVars>>

\* the timer callback, lines 384-403 and 415-419: the process is killed and
\* the promise resolved with the original path
SepTimeout ==
  /\ TimerDue(sep)
  /\ sep' = [Resolve(sep, sep.filePath, "timeout") EXCEPT
               !.timer = "fired",
               !.killed = (sep.proc = "running")]
  /\ UNCHANGED <<runStages, fsScripts, originalFilePath, lpPc, lpCall, audioFilePath, tr,
                 progressSent, lpResult>>
  /\ UNCHANGED <<chunkerVars, procVars, chanVars, namesVars, cloudVars>>
  /\ UNCHANGED appVars

\* 'close' of the separation subprocess, lines 428-534
SepClose(code) ==
  /\ sep.proc \in {"running", "failed"}
  /\ sep' = [Resolve(sep, SeparationCloseOutcome(code, sep.stdout, sep.filePath).value,
                      SeparationCloseOutcome(code, sep.stdout, sep.filePath).branch)
               EXCEPT !.proc = "closed",
                      !.code = code,
                      !.timer = IF @ = "armed" THEN "cleared" ELSE @]
  /\ UNCHANGED <<runStages, fsScripts, originalFilePath, lpPc, lpCall, audioFilePath, tr,
                 progressSent, lpResult>>
  /\ UNCHANGED <<chunkerVars, procVars, chanVars, namesVars, cloudVars>>
  /\ UNCHANGED appVars

\* 'error' of the separation subprocess, lines 536-549: the process could
\* not be spawned or signalled; it writes nothing more, 'close' may follow
SepError ==
  /\ sep.proc = "running"
  /\ sep' = [Resolve(sep, sep.filePath, "error") EXCEPT
               !.proc = "failed",
               !.timer = IF @ = "armed" THEN "cleared" ELSE @]
  /\ UNCHANGED <<runStages, fsScripts, originalFilePath, lpPc, lpCall, audioFilePath, tr,
                 progressSent, lpResult>>
  /\ UNCHANGED <<chunkerVars, procVars, chanVars, namesVars, cloudVars>>
  /\ UNCHANGED appVars

\* processAudio resumes after `await this.separateAudio(filePath)`,
\* lines 328-338, and calls transcribeAudio.  From here on the stdout
\* collected by the separation closure is dead (the promise is settled, so
\* whatever a late 'close' computes from it is dropped by resolve), and so
\* is the time its timer has run: the model forgets both.
SeparationAwaited(spawnThrows) ==
  /\ lpPc = "separating"
  /\ sep.promise = "resolved"
  /\ audioFilePath' = sep.value
  /\ tr' = transcribeAudio(sep.value, lpCall.options.model, spawnThrows)
  /\ lpPc' = "recognizing"
  /\ runStages' = Append(runStages, "recognition")
  /\ sep' = [sep EXCEPT !.stdout = << >>, !.waited = 0, !.quiet = 0]
  /\ UNCHANGED <<fsScripts, originalFilePath, lpCall, progressSent, lpResult>>
  /\ UNCHANGED <<chunkerVars, procVars, chanVars, namesVars, cloudVars>>
  /\ UNCHANGED appVars

\* stdout 'data' of the recognition subprocess, lines 596-599
TrData(line) ==
  /\ tr.proc = "running"
  /\ Len(tr.stdout) < MaxTrLines
  /\ tr' = [tr EXCEPT !.stdout = Append(@, line)]
  /\ progressSent' = handlePythonOutput("recognition", line)
  /\ handleProgress(progressSent')
  /\ UNCHANGED <<runStages, fsScripts, originalFilePath, lpPc, lpCall, audioFilePath, sep, lpResult>>
  /\ UNCHANGED <<chunkerVars, procVars, chanVars, namesVars, cloudVars>>

\* 'close' of the recognition subprocess, lines 605-720
TrClose(code) ==
  /\ tr.proc \in {"running", "failed"}
  /\ tr' = [Resolve(tr, TranscriptionCloseValue(code, tr.stdout, tr.filePath,
                                                lpCall.options.model,
                                                originalFilePath), "close")
              EXCEPT !.proc = "closed", !.code = code]
  /\ UNCHANGED <<runStages, fsScripts, originalFilePath, lpPc, lpCall, audioFilePath, sep,
                 progressSent, lpResult>>
  /\ UNCHANGED <<chunkerVars, procVars, chanVars, namesVars, cloudVars>>
  /\ UNCHANGED appVars

\* A mutant of the 'error' handler: the promise is rejected.
TrError_rejects ==
  /\ tr.proc = "running"
  /\ tr' = [tr EXCEPT !.proc = "failed",
                       !.promise = IF @ = "pending" THEN "rejected" ELSE @,
                       !.settledBy = IF tr.promise = "pending" THEN "error" ELSE @]
  /\ UNCHANGED <<runStages, fsScripts, originalFilePath, lpPc, lpCall, audioFilePath, sep,
                 progressSent, lpResult>>
  /\ UNCHANGED <<chunkerVars, procVars, chanVars, namesVars, cloudVars>>
  /\ UNCHANGED appVars

\* 'error' of the recognition subprocess, lines 722-739
TrError ==
  /\ tr.proc = "running"
  /\ tr' = [Resolve(tr, SoftFail("E:spawn", lpCall.options.model), "error")
              EXCEPT !.proc = "failed"]
  /\ UNCHANGED <<runStages, fsScripts, originalFilePath, lpPc, lpCall, audioFilePath, sep,
                 progressSent, lpResult>>
  /\ UNCHANGED <<chunkerVars, procVars, chanVars, namesVars, cloudVars>>
  /\ UNCHANGED appVars

\* processAudio resumes after `await this.transcribeAudio(...)`: it returns
\* the value of the promise (line 338) or, had the promise been rejected,
\* the default result of its catch block (lines 339-349)
TranscriptionAwaited ==
  /\ lpPc = "recognizing"
  /\ tr.promise \in {"resolved", "rejected"}
  /\ lpResult' = [kind |-> "value",
                  value |-> IF tr.promise = "resolved" THEN tr.value
                            ELSE [text |-> "E:caught", segments |-> "none",
                                  modelUsed |-> lpCall.options.model,
                                  audioSeparationUsed |->
                                    (audioFilePath # lpCall.filePath)]]
  /\ lpPc' = "done"
  /\ runStages' = Append(runStages, "complete")
  /\ UNCHANGED <<fsScripts, originalFilePath, lpCall, audioFilePath, sep, tr, progressSent>>
  /\ UNCHANGED <<chunkerVars, procVars, chanVars, namesVars, cloudVars>>

(***************************************************************************)
(* The renderer (App.tsx) and the 'transcribe-audio' handler of the main   *)
(* process (part_010:269-286).  The start button is enabled while          *)
(* `audioFile && !isProcessing`; the handler calls processAudio on the     *)
(* manager at once, and neither it nor processAudio looks at a run in      *)
(* flight.  The run whose subprocesses are modelled is the first one; a    *)
(* later run on the same manager is modelled by what it shares with the    *)
(* first: the manager's originalFilePath and the renderer's isProcessing.  *)
(***************************************************************************)
OtherFile == "/in/other.wav"

\* the 'transcribe-audio' handler, part_010:269-279: it calls processAudio
\* on the manager of the model
transcribeAudioHandler(filePath, options, spawnThrows) ==
  /\ lpPc = "idle"
  /\ processAudio(filePath, options, spawnThrows)
  /\ UNCHANGED appVars

\* handleTranscribe, App.tsx:152-181: setIsProcessing(true); with separation
\* enabled the 'separate-audio' request comes first, whose handler calls
\* separateAudio (part_010:288-291); otherwise the 'transcribe-audio' request
\* is made at once
handleTranscribe(options, spawnThrows) ==
  /\ ~ isProcessing
  /\ lpPc = "idle"
  /\ isProcessing' = TRUE
  /\ otherRun' = otherRun
  /\ progress' = IF options.enableAudioSeparation THEN "separation" ELSE "transcription"
  /\ UNCHANGED <<transcriptionResult, cancelled>>
  /\ IF options.enableAudioSeparation
     THEN /\ sep' = separateAudio(InputFile, spawnThrows)
          /\ lpPc' = "rendererSeparating"
          /\ lpCall' = [filePath |-> InputFile, options |-> options]
          /\ runStages' = Append(runStages, "separation")
          /\ UNCHANGED <<fsScripts, originalFilePath, audioFilePath, tr, progressSent,
                         lpResult>>
          /\ UNCHANGED <<chunkerVars, procVars, chanVars, namesVars, cloudVars>>
     ELSE processAudio(InputFile, options, spawnThrows)

\* handleTranscribe resumes after `await window.api.separateAudio(filePath)`,
\* App.tsx:165-180: the 'transcribe-audio' request is made for the path that
\* came back, with the same options
separateAudioReturned(spawnThrows) ==
  /\ lpPc = "rendererSeparating"
  /\ sep.promise = "resolved"
  /\ processAudio(sep.value, lpCall.options, spawnThrows)
  /\ progress' = "transcription"
  /\ UNCHANGED <<isProcessing, otherRun, transcriptionResult, cancelled>>

\* processAudio returns and the handler returns its result, part_010:273-279
transcribeAudioHandlerReturns ==
  /\ TranscriptionAwaited
  /\ UNCHANGED appVars

\* handleTranscribeDone leaving the result of a cancelled run aside
handleTranscribeDone_dropsCancelled ==
  /\ TranscriptionAwaited
  /\ isProcessing' = FALSE
  /\ otherRun' = otherRun
  /\ transcriptionResult' = IF cancelled THEN transcriptionResult ELSE lpResult'
  /\ progress' = IF cancelled THEN progress ELSE "complete"
  /\ cancelled' = cancelled

\* processAudio returns, the handler returns its result (part_010:273-279)
\* and handleTranscribe goes on to its finally, App.tsx:182-191
handleTranscribeDone ==
  /\ TranscriptionAwaited
  /\ isProcessing' = FALSE
  /\ otherRun' = otherRun
  /\ transcriptionResult' = lpResult'
  /\ progress' = "complete"
  /\ cancelled' = cancelled

\* onCancel of the progress indicator, App.tsx:481-485 (the indicator and
\* its cancel button are rendered while isProcessing): the flag is cleared,
\* nothing is stopped
onCancel ==
  /\ isProcessing
  /\ isProcessing' = FALSE
  /\ cancelled' = TRUE
  /\ UNCHANGED <<runStages, fsScripts, originalFilePath, lpPc, lpCall, audioFilePath, sep, tr,
                 progressSent, lpResult, otherRun, transcriptionResult, progress>>
  /\ UNCHANGED <<chunkerVars, procVars, chanVars, namesVars, cloudVars>>

\* handleTranscribe once more, for the file then selected: the handler calls
\* processAudio on the same manager, whose first statement is line 322
handleTranscribeAgain(filePath) ==
  /\ ~ isProcessing
  /\ lpPc \in {"separating", "recognizing", "done"}
  /\ otherRun = "none"
  /\ isProcessing' = TRUE
  /\ otherRun' = "running"
  /\ originalFilePath' = filePath
  /\ progress' = "transcription"
  /\ UNCHANGED <<transcriptionResult, cancelled>>
  /\ UNCHANGED <<runStages, fsScripts, lpPc, lpCall, audioFilePath, sep, tr, progressSent,
                 lpResult>>
  /\ UNCHANGED <<chunkerVars, procVars, chanVars, namesVars, cloudVars>>

\* the later run returns and its handleTranscribe reaches its finally
otherRunReturns ==
  /\ otherRun = "running"
  /\ otherRun' = "returned"
  /\ isProcessing' = FALSE
  /\ transcriptionResult' = [kind |-> "other"]
  /\ progress' = "complete"
  /\ cancelled' = cancelled
  /\ UNCHANGED <<runStages, fsScripts, originalFilePath, lpPc, lpCall, audioFilePath, sep, tr,
                 progressSent, lpResult>>
  /\ UNCHANGED <<chunkerVars, procVars, chanVars, namesVars, cloudVars>>

(***************************************************************************)
(* The cloud path: AWSAudioProcessingManager, one instance shared by every *)
(* 'transcribe-audio' call whose model starts with aws-transcribe.         *)
(***************************************************************************)
MaxUploadEvents == 1

MaxOtherRuns == 1

DefaultRegion == "ap-northeast-1"

DEFAULT_BUCKET_PREFIX == "transcribe-audio-temp-rkuros"

\* `${DEFAULT_BUCKET_PREFIX}-${region}`
DefaultBucket(region) == <<DEFAULT_BUCKET_PREFIX, region>>

\* `transcription_job_${Date.now()}`, line 264
JobNameAt(now) == "transcription_job_" \o ToString(now)

\* `uploads/${timestamp}/${fileName}` with timestamp = Date.now(), lines 219-220
ObjectKeyAt(now, fileName) == "uploads/" \o ToString(now) \o "/" \o fileName

NoBucket == << >>

MaxAttempts == 60

IntervalSeconds == 5

\* the regions a request may name in options.awsRegion ("" is: not set)
RunRegions == {"", "us-east-1"}

OtherRegions == {"", "eu-west-1"}

CloudOptionsSet ==
  {[model |-> "aws-transcribe", awsRegion |-> r] : r \in RunRegions}

OtherCloudOptionsSet ==
  {[model |-> "aws-transcribe", awsRegion |-> r] : r \in OtherRegions}

NoCloudCall ==
  [filePath |-> "", options |-> [model |-> "", awsRegion |-> ""], region |-> ""]

\* what a call returned or threw; message is the chain of wrappers around the
\* cause, outermost first
NoCloudResult ==
  [kind |-> "none", text |-> << >>, segments |-> "none", modelUsed |-> "",
   audioSeparationUsed |-> FALSE, awsJobId |-> "", message |-> << >>,
   appError |-> FALSE]

\* no terminal status yet
NoTerminal == [status |-> "none", reason |-> "", queries |-> 0]

\* the fields of a manager nobody has used yet; a client is written as the
\* region it was constructed with, "" is null
FreshManager ==
  [region |-> DefaultRegion, bucketName |-> NoBucket, s3Client |-> "",
   transcribeClient |-> ""]

CloudOff ==
  /\ aws = FreshManager
  /\ createdBuckets = {}
  /\ cpPc = "off"
  /\ cpCall = NoCloudCall
  /\ cpAttempt = 0
  /\ cpJobName = ""
  /\ cpS3Uri = << >>
  /\ cpLog = << >>
  /\ cpQueries = 0
  /\ cpQueryRegions = {}
  /\ cpSlept = 0
  /\ cpTerminal = NoTerminal
  /\ cpFetched = "none"
  /\ cpProgress = << >>
  /\ cpResult = NoCloudResult
  /\ hdResult = NoCloudResult
  /\ cpOthers = << >>

CloudInit ==
  /\ aws = FreshManager
  /\ createdBuckets = {}
  /\ cpPc = "idle"
  /\ cpCall = NoCloudCall
  /\ cpAttempt = 0
  /\ cpJobName = ""
  /\ cpS3Uri = << >>
  /\ cpLog = << >>
  /\ cpQueries = 0
  /\ cpQueryRegions = {}
  /\ cpSlept = 0
  /\ cpTerminal = NoTerminal
  /\ cpFetched = "none"
  /\ cpProgress = << >>
  /\ cpResult = NoCloudResult
  /\ hdResult = NoCloudResult
  /\ cpOthers = << >>

\* StartOfRun falling back to the default region when the request names none
StartOfRun_resetsRegion(a, options) ==
  LET region == IF options.awsRegion # "" THEN options.awsRegion ELSE DefaultRegion
  IN [region |-> region, bucketName |-> DefaultBucket(region),
      s3Client |-> region, transcribeClient |-> region]

\* The synchronous start of processAudio, from its first line to the first
\* await (the HeadBucket request): the region, the bucket name and the two
\* clients of the manager after it.
StartOfRun(a, options) ==
  LET region == IF options.awsRegion # "" THEN options.awsRegion ELSE a.region
  IN [region |-> region, bucketName |-> DefaultBucket(region),
      s3Client |-> region, transcribeClient |-> region]

\* a request sent through a client of the manager: the region of the client,
\* the bucket it names and, for CreateBucket, the LocationConstraint
Request(op, client, bucket, location) ==
  [op |-> op, client |-> client, bucket |-> bucket, location |-> location]

\* PollPercent spreading the attempts over 100 instead of 80
PollPercent_scaledTo100(attempt) ==
  10 + ((2 * 100 * attempt + MaxAttempts) \div (2 * MaxAttempts))

\* Math.min(10 + Math.round((attempt / maxAttempts) * 80), 90)
PollPercent(attempt) ==
  Min2(10 + ((2 * 80 * attempt + MaxAttempts) \div (2 * MaxAttempts)), 90)

\* cpProgress after reportProgress({stage, percent})
Reported(published, stage, percent) ==
  Append(published, [stage |-> stage, percent |-> percent])

\* categorizeError: the AppError the handler throws keeps the error it wraps
CategorizedError(result) == [result EXCEPT !.appError = TRUE]

\* getBucketName, lines 38-44: the region is entered in createdBuckets unless
\* it is there already
getBucketName(created, region) ==
  IF region \in created THEN created ELSE created \cup {region}

\* PollBudgetLeft with the loop bound one too large
PollBudgetLeft_offByOne(attempt) == attempt <= MaxAttempts

\* the loop condition of pollJobCompletion: attempt < maxAttempts
PollBudgetLeft(attempt) == attempt < MaxAttempts

\* ProcessAudioCatch absorbing the error into a result that carries its text
ProcessAudioCatch_softFails(message) ==
  [NoCloudResult EXCEPT !.kind = "returned", !.text = message,
                        !.segments = "empty", !.modelUsed = cpCall.options.model]

\* the catch block of processAudio, lines 91-100: the error is reported on
\* 'python-error' and thrown again
ProcessAudioCatch(message) ==
  [NoCloudResult EXCEPT !.kind = "threw", !.message = message]

\* ProcessAudioReturn building its result anew, without the fields of the
\* result of transcribeAudio that it does not name
ProcessAudioReturn_dropsJobId(text, segments) ==
  [NoCloudResult EXCEPT !.kind = "returned", !.text = text, !.segments = segments,
                        !.modelUsed = cpCall.options.model,
                        !.audioSeparationUsed = FALSE]

\* lines 85-90: what processAudio returns around the result of transcribeAudio
ProcessAudioReturn(text, segments) ==
  [NoCloudResult EXCEPT !.kind = "returned", !.text = text, !.segments = segments,
                        !.modelUsed = cpCall.options.model,
                        !.audioSeparationUsed = FALSE, !.awsJobId = cpJobName]

\* the 'transcribe-audio' handler around processAudio: it returns the result,
\* and throws the categorised error when processAudio threw
HandlerOutcome(result) ==
  IF result.kind = "threw" THEN CategorizedError(result) ELSE result

\* where a continuation of the run leaves it: its position, the requests it
\* has sent and, when it ended, its outcome
Goes(pc, log) == [pc |-> pc, log |-> log, result |-> NoCloudResult]

Ends(result) == [pc |-> "done", log |-> cpLog, result |-> result]

Continue(step) ==
  /\ cpPc' = step.pc
  /\ cpLog' = step.log
  /\ cpResult' = step.result
  /\ hdResult' = HandlerOutcome(step.result)

\* uploadFileToS3 up to its await: the file is looked up and the upload is
\* started through this.s3Client into this.bucketName
uploadFileToS3 ==
  IF cpCall.filePath \notin ExistingFiles
  THEN Ends(ProcessAudioCatch(<<"uploadFileToS3", "file-missing">>))
  ELSE Goes("upload", Append(cpLog, Request("Upload", aws.s3Client, aws.bucketName, "")))

\* processAudio up to its first await, which is the HeadBucket request of
\* ensureBucketExists
cloudProcessAudio(filePath, options) ==
  /\ cpPc = "idle"
  /\ aws' = StartOfRun(aws, options)
  /\ createdBuckets' = getBucketName(createdBuckets, aws'.region)
  /\ cpCall' = [filePath |-> filePath, options |-> options, region |-> aws'.region]
  /\ Continue(Goes("head", Append(cpLog, Request("HeadBucket", aws'.s3Client,
                                                 aws'.bucketName, ""))))
  /\ UNCHANGED <<cpTerminal, cpFetched, cpAttempt, cpJobName, cpS3Uri, cpQueries, cpQueryRegions, cpSlept,
                 cpProgress, cpOthers>>
  /\ UNCHANGED <<chunkerVars, procVars, chanVars, namesVars, localVars>>

HeadOutcomes == {"ok", "NotFound", "NoSuchBucket", "CredentialsProviderError"}

\* the HeadBucket request settles, lines 142-182
HeadResponds(outcome) ==
  /\ cpPc = "head"
  /\ Continue(
       IF outcome = "ok" THEN uploadFileToS3
       ELSE IF outcome \in {"NotFound", "NoSuchBucket"}
       THEN Goes("create",
                 Append(cpLog, Request("CreateBucket", aws.s3Client, aws.bucketName,
                                       IF aws.region # "us-east-1" THEN aws.region
                                                                   ELSE "")))
       ELSE Ends(ProcessAudioCatch(<<"initializeClients", "ensureBucketExists",
                                    outcome>>)))
  /\ UNCHANGED <<cpTerminal, cpFetched, aws, createdBuckets, cpCall, cpAttempt, cpJobName, cpS3Uri, cpQueries,
                 cpQueryRegions, cpSlept, cpProgress, cpOthers>>
  /\ UNCHANGED <<chunkerVars, procVars, chanVars, namesVars, localVars>>

\* what S3 answers to CreateBucket: success, the name is taken by a bucket of
\* another account (BucketAlreadyExists), the name is taken by a bucket this
\* account owns already (BucketAlreadyOwnedByYou, which S3 reports in every
\* region but us-east-1), or another error
CreateOutcomes == {"ok", "BucketAlreadyExists", "BucketAlreadyOwnedByYou", "AccessDenied"}

\* the CreateBucket request settles, lines 159-177; setBucketPolicy does
\* nothing
CreateResponds(outcome) ==
  /\ cpPc = "create"
  /\ outcome = "BucketAlreadyOwnedByYou" => cpLog[Len(cpLog)].client # "us-east-1"
  /\ Continue(
       IF outcome \in {"ok", "BucketAlreadyExists"} THEN uploadFileToS3
       ELSE Ends(ProcessAudioCatch(<<"initializeClients", "ensureBucketExists",
                                    outcome>>)))
  /\ UNCHANGED <<cpTerminal, cpFetched, aws, createdBuckets, cpCall, cpAttempt, cpJobName, cpS3Uri, cpQueries,
                 cpQueryRegions, cpSlept, cpProgress, cpOthers>>
  /\ UNCHANGED <<chunkerVars, procVars, chanVars, namesVars, localVars>>

UploadPercents == {50, 100}

\* an httpUploadProgress event of the running upload, lines 232-244
UploadProgress(percent) ==
  /\ cpPc = "upload"
  /\ Len(cpProgress) < MaxUploadEvents
  /\ \A i \in 1..Len(cpProgress) : cpProgress[i].percent <= percent
  /\ cpProgress' = Reported(cpProgress, "uploading", percent)
  /\ UNCHANGED <<cpTerminal, cpFetched, aws, createdBuckets, cpPc, cpCall, cpAttempt, cpJobName, cpS3Uri, cpLog,
                 cpQueries, cpQueryRegions, cpSlept, cpResult, hdResult, cpOthers>>
  /\ UNCHANGED <<chunkerVars, procVars, chanVars, namesVars, localVars>>

JobName == JobNameAt(1)

ObjectKey == ObjectKeyAt(1, "audio.wav")

\* upload.done() settles, lines 246-254; on success s3Uri is built from
\* this.bucketName and transcribeAudio runs up to its await, lines 259-326:
\* the job is submitted through this.transcribeClient with this.bucketName
\* as its output bucket
UploadResponds(ok) ==
  /\ cpPc = "upload"
  /\ IF ok
     THEN /\ cpS3Uri' = <<aws.bucketName, ObjectKey>>
          /\ cpJobName' = JobName
          /\ Continue(Goes("start",
                           Append(cpLog, Request("StartTranscriptionJob",
                                                 aws.transcribeClient, aws.bucketName,
                                                 ""))))
     ELSE /\ Continue(Ends(ProcessAudioCatch(<<"uploadFileToS3", "UploadFailed">>)))
          /\ UNCHANGED <<cpS3Uri, cpJobName>>
  /\ UNCHANGED <<cpTerminal, cpFetched, aws, createdBuckets, cpCall, cpAttempt, cpQueries, cpQueryRegions,
                 cpSlept, cpProgress, cpOthers>>
  /\ UNCHANGED <<chunkerVars, procVars, chanVars, namesVars, localVars>>

\* one turn of the loop of pollJobCompletion up to its await, lines 423-429:
\* with budget left a status query goes out through this.transcribeClient,
\* without it the loop is left and line 459 throws
PollTurn(attempt) ==
  /\ cpAttempt' = attempt
  /\ IF PollBudgetLeft(attempt)
     THEN /\ cpQueries' = cpQueries + 1
          /\ cpQueryRegions' = cpQueryRegions \cup {aws.transcribeClient}
          /\ Continue(Goes("status", cpLog))
     ELSE /\ Continue(Ends(ProcessAudioCatch(<<"transcribeAudio", "timeout">>)))
          /\ UNCHANGED <<cpQueries, cpQueryRegions>>

\* the StartTranscriptionJob request settles, lines 326-337
StartResponds(ok) ==
  /\ cpPc = "start"
  /\ IF ok
     THEN /\ cpProgress' = Reported(cpProgress, "processing", 0)
          /\ PollTurn(0)
     ELSE /\ Continue(Ends(ProcessAudioCatch(<<"transcribeAudio", "StartFailed">>)))
          /\ UNCHANGED <<cpProgress, cpAttempt, cpQueries, cpQueryRegions>>
  /\ UNCHANGED <<cpTerminal, cpFetched, aws, createdBuckets, cpCall, cpJobName, cpS3Uri, cpSlept, cpOthers>>
  /\ UNCHANGED <<chunkerVars, procVars, chanVars, namesVars, localVars>>

JobStatuses == {"QUEUED", "IN_PROGRESS", "COMPLETED", "FAILED"}

FailureReasons == {"", "Unsupported audio format"}

\* JobFailedMessage without the reason of the provider
JobFailedMessage_dropsReason(reason) == <<"transcribeAudio", "job-failed", "unknown">>

\* lines 447-448 and 411: the message of the error raised for a FAILED job,
\* which ends with FailureReason, or with a fixed word when there is none
JobFailedMessage(reason) ==
  <<"transcribeAudio", "job-failed", IF reason = "" THEN "unknown" ELSE reason>>

\* the catch of the polling loop without its rethrow: the loop sleeps and
\* takes its next turn
pollJobCompletionCatch_retries == Continue(Goes("sleep", cpLog))

\* lines 453-456 and 409-412: the catch inside the loop of pollJobCompletion
\* logs the error of the status query and rethrows it, which leaves the loop
\* and the function; transcribeAudio wraps it and processAudio fails
pollJobCompletionCatch ==
  Continue(Ends(ProcessAudioCatch(<<"transcribeAudio", "StatusFailed">>)))

\* a GetTranscriptionJob request settles, lines 429-456 and, when the job is
\* COMPLETED, lines 340-363: the transcript is requested through
\* this.s3Client from this.bucketName.  reason is the FailureReason of the
\* answer.
StatusResponds(status, reason) ==
  /\ cpPc = "status"
  /\ (reason # "") => (status = "FAILED")
  /\ cpTerminal' = IF status \in {"COMPLETED", "FAILED", "throws"}
                   THEN [status |-> status, reason |-> reason, queries |-> cpQueries]
                   ELSE cpTerminal
  /\ IF status = "throws"
     THEN /\ pollJobCompletionCatch
          /\ UNCHANGED cpProgress
     ELSE LET polled == Reported(cpProgress, "processing", PollPercent(cpAttempt))
          IN IF status = "COMPLETED"
             THEN /\ cpProgress' = Reported(polled, "processing", 90)
                  /\ Continue(Goes("get",
                                   Append(cpLog, Request("GetObject", aws.s3Client,
                                                         aws.bucketName, ""))))
             ELSE IF status = "FAILED"
             THEN /\ cpProgress' = polled
                  /\ Continue(Ends(ProcessAudioCatch(JobFailedMessage(reason))))
             ELSE /\ cpProgress' = polled
                  /\ Continue(Goes("sleep", cpLog))
  /\ UNCHANGED <<cpFetched, aws, createdBuckets, cpCall, cpAttempt, cpJobName, cpS3Uri, cpQueries,
                 cpQueryRegions, cpSlept, cpOthers>>
  /\ UNCHANGED <<chunkerVars, procVars, chanVars, namesVars, localVars>>

\* the timer of line 452 fires after intervalSeconds * 1000 ms and the loop
\* takes its next turn
PollTimer ==
  /\ cpPc = "sleep"
  /\ cpSlept' = cpSlept + IntervalSeconds * 1000
  /\ PollTurn(cpAttempt + 1)
  /\ UNCHANGED <<cpTerminal, cpFetched, aws, createdBuckets, cpCall, cpJobName, cpS3Uri, cpProgress, cpOthers>>
  /\ UNCHANGED <<chunkerVars, procVars, chanVars, namesVars, localVars>>

GetOutcomes == {"ok", "badShape", "badJson", "throws"}

\* the GetObject request settles, lines 360-408, and processAudio returns,
\* lines 83-90; a body that does not parse and a failed request give the
\* result of the inner catch, a parsed body of another shape the result of
\* the catch of convertAwsTranscriptToResult
GetResponds(outcome) ==
  /\ cpPc = "get"
  /\ cpFetched' = outcome
  /\ cpProgress' = Reported(cpProgress, "complete", 100)
  /\ Continue(Ends(
       IF outcome = "ok" THEN ProcessAudioReturn(<<"transcript">>, "items")
       ELSE IF outcome = "badShape"
       THEN ProcessAudioReturn(<<"conversion-error">>, "empty")
       ELSE ProcessAudioReturn(<<"job-done-fetch-failed", cpJobName, outcome>>,
                               "empty")))
  /\ UNCHANGED <<cpTerminal, aws, createdBuckets, cpCall, cpAttempt, cpJobName, cpS3Uri, cpQueries,
                 cpQueryRegions, cpSlept, cpOthers>>
  /\ UNCHANGED <<chunkerVars, procVars, chanVars, namesVars, localVars>>

InFlight == cpPc \in {"head", "create", "upload", "start", "status", "sleep", "get"}

\* Another 'transcribe-audio' call arrives while the run is in flight and
\* processAudio runs for it on the same manager up to its first await.  Its
\* later steps write no field of the manager.
otherProcessAudio(options) ==
  /\ InFlight
  /\ Len(cpOthers) < MaxOtherRuns
  /\ cpOthers' = Append(cpOthers, options)
  /\ aws' = StartOfRun(aws, options)
  /\ createdBuckets' = getBucketName(createdBuckets, aws'.region)
  /\ UNCHANGED <<cpTerminal, cpFetched, cpPc, cpCall, cpAttempt, cpJobName, cpS3Uri, cpLog, cpQueries,
                 cpQueryRegions, cpSlept, cpProgress, cpResult, hdResult>>
  /\ UNCHANGED <<chunkerVars, procVars, chanVars, namesVars, localVars>>

(***************************************************************************)
(* The names cloud runs choose.  Each run reads the clock twice: in        *)
(* uploadFileToS3 for its object key and in transcribeAudio for its job    *)
(* name.  The runs are those of one account and region, in one process or  *)
(* in several; the clock counts milliseconds and several steps fit in one. *)
(***************************************************************************)
MaxClock == 3

MaxRuns == 2

\* path.basename(filePath), line 218
FileNames == {"audio.wav", "take2.wav"}

NoName == ""

NamesOff ==
  /\ dateNow = 0
  /\ cloudRuns = << >>

NamesInit ==
  /\ dateNow = 1
  /\ cloudRuns = << >>

\* transcriptFileName = `${jobName}.json`, line 351
transcriptFileName(jobName) == jobName \o ".json"

\* a millisecond passes
clockAdvances ==
  /\ dateNow # 0
  /\ dateNow < MaxClock
  /\ dateNow' = dateNow + 1
  /\ UNCHANGED cloudRuns
  /\ UNCHANGED <<chunkerVars, procVars, localVars, cloudVars, chanVars>>

\* processAudio(filePath, options), lines 55-77: a run begins
runStarts(fileName) ==
  /\ dateNow # 0
  /\ Len(cloudRuns) < MaxRuns
  /\ cloudRuns' = Append(cloudRuns, [fileName |-> fileName, pc |-> "upload",
                                     objectKey |-> NoName, jobName |-> NoName])
  /\ UNCHANGED dateNow
  /\ UNCHANGED <<chunkerVars, procVars, localVars, cloudVars, chanVars>>

\* uploadFileToS3, lines 217-220: the run chooses its object key
runChoosesObjectKey(r) ==
  /\ r \in 1 .. Len(cloudRuns)
  /\ cloudRuns[r].pc = "upload"
  /\ cloudRuns' = [cloudRuns EXCEPT ![r].objectKey = ObjectKeyAt(dateNow, cloudRuns[r].fileName),
                                    ![r].pc = "transcribe"]
  /\ UNCHANGED dateNow
  /\ UNCHANGED <<chunkerVars, procVars, localVars, cloudVars, chanVars>>

\* transcribeAudio, line 264: the run chooses its job name
runChoosesJobName(r) ==
  /\ r \in 1 .. Len(cloudRuns)
  /\ cloudRuns[r].pc = "transcribe"
  /\ cloudRuns' = [cloudRuns EXCEPT ![r].jobName = JobNameAt(dateNow),
                                    ![r].pc = "named"]
  /\ UNCHANGED dateNow
  /\ UNCHANGED <<chunkerVars, procVars, localVars, cloudVars, chanVars>>

(***************************************************************************)
(* The progress channel of a manager: onProgress and reportProgress.       *)
(***************************************************************************)
MaxListeners == 3

MaxEvents == 2

\* what a listener does when it is called: it returns, it throws, or it
\* subscribes a further listener and returns
ListenerKinds == {"returns", "throws", "subscribes"}

ChanOff ==
  /\ chManager = "off"
  /\ chCallbacks = << >>
  /\ chEvents = << >>
  /\ chDelivered = << >>
  /\ chWindow = << >>
  /\ chRaised = FALSE

\* private callbacks = [], in either manager
ChanInit ==
  /\ chManager \in {"python", "aws"}
  /\ chCallbacks = << >>
  /\ chEvents = << >>
  /\ chDelivered = << >>
  /\ chWindow = << >>
  /\ chRaised = FALSE

\* onProgress(callback): this.callbacks.push(callback)
onProgress(kind) ==
  /\ chManager # "off"
  /\ Len(chCallbacks) < MaxListeners
  /\ chCallbacks' = Append(chCallbacks, kind)
  /\ UNCHANGED <<chManager, chEvents, chDelivered, chWindow, chRaised>>
  /\ UNCHANGED <<chunkerVars, procVars, localVars, cloudVars, namesVars>>

\* the position of the first listener that throws, or 0
FirstThrower(callbacks) ==
  IF \E i \in 1..Len(callbacks) : callbacks[i] = "throws"
  THEN MinOf({i \in 1..Len(callbacks) : callbacks[i] = "throws"})
  ELSE 0

\* this.callbacks.forEach(callback => callback(data)): the listeners called,
\* in order.  forEach visits the elements present when it starts, and an
\* exception of a listener leaves forEach.
Called(callbacks) ==
  IF FirstThrower(callbacks) = 0 THEN Len(callbacks) ELSE FirstThrower(callbacks)

\* the listeners subscribed by the listeners that forEach called
RECURSIVE Subscribed(_, _)
Subscribed(callbacks, n) ==
  IF n = 0 THEN << >>
  ELSE IF callbacks[n] = "subscribes"
       THEN Append(Subscribed(callbacks, n - 1), "returns")
       ELSE Subscribed(callbacks, n - 1)

\* One progress event is published.  In the python manager it comes from
\* handlePythonOutput, which sends it to the window first and catches what
\* reportProgress throws; in the aws manager reportProgress sends it to the
\* window after the listeners, and what a listener throws reaches the caller.
reportProgress ==
  /\ chManager # "off"
  /\ Len(chEvents) < MaxEvents
  /\ LET called == Called(chCallbacks)
         threw == FirstThrower(chCallbacks) # 0
         event == Len(chEvents) + 1
     IN /\ chEvents' = Append(chEvents, [subscribed |-> Len(chCallbacks)])
        /\ chDelivered' = chDelivered \o [i \in 1..called |-> [listener |-> i, event |-> event]]
        /\ chCallbacks' = chCallbacks \o Subscribed(chCallbacks, called)
        /\ chWindow' = IF chManager = "python" \/ ~ threw
                       THEN Append(chWindow, event) ELSE chWindow
        /\ chRaised' = (chManager = "aws" /\ threw)
  /\ UNCHANGED chManager
  /\ UNCHANGED <<chunkerVars, procVars, localVars, cloudVars, namesVars>>

ProcessingOptionsSet ==
  {[enableAudioSeparation |-> b, model |-> "faster-whisper-small"] : b \in BOOLEAN}

(***************************************************************************)
(* Specifications.                                                         *)
(***************************************************************************)
InitChunker == ChunkerInit /\ ProcOff /\ LocalOff /\ CloudOff /\ ChanOff /\ NamesOff

SpecChunker == InitChunker /\ [][CallSplit]_vars

ProcNext ==
  \/ \E text \in ProcTexts, options \in SummarizeOptions : summarizeText(text, options)
  \/ \E text \in ProcTexts, options \in WeeklyReportOptions :
        createWeeklyReport(text, options)
  \/ \E r \in AgentResponses : AgentResponds(r)
  \/ \E r \in DirectResponses : ModelResponds(r)

InitText == ProcInit /\ ChunkerOff /\ LocalOff /\ CloudOff /\ ChanOff /\ NamesOff

SpecText == InitText /\ [][ProcNext]_vars

\* the steps of the subprocesses and of the stages awaiting them
StageNext ==
  \/ \E line \in SepLines : SepData(line)
  \/ Tick
  \/ SepTimeout
  \/ \E code \in ExitCodes : SepClose(code)
  \/ SepError
  \/ \E spawnThrows \in BOOLEAN : SeparationAwaited(spawnThrows)
  \/ \E line \in TrLines : TrData(line)
  \/ \E code \in ExitCodes : TrClose(code)
  \/ TrError

\* one 'transcribe-audio' request and the pipeline run it starts
LocalNext ==
  \/ \E options \in ProcessingOptionsSet, spawnThrows \in BOOLEAN :
        transcribeAudioHandler(InputFile, options, spawnThrows)
  \/ StageNext
  \/ transcribeAudioHandlerReturns

InitLocal == LocalInit /\ ChunkerOff /\ ProcOff /\ CloudOff /\ ChanOff /\ NamesOff

SpecLocal == InitLocal /\ [][LocalNext]_vars

\* The steps the program takes by itself happen when they can: a due timer
\* fires, time passes, and a settled promise resumes the function awaiting
\* it.  Nothing obliges a subprocess to write or to exit.
SpecLocalFair ==
  /\ InitLocal
  /\ [][LocalNext]_vars
  /\ WF_vars(Tick)
  /\ WF_vars(SepTimeout)
  /\ WF_vars(\E spawnThrows \in BOOLEAN : SeparationAwaited(spawnThrows))
  /\ WF_vars(transcribeAudioHandlerReturns)

\* The first run together with what the user can do meanwhile: cancel, and
\* start again.
SharedNext ==
  \/ \E options \in ProcessingOptionsSet, spawnThrows \in BOOLEAN :
        handleTranscribe(options, spawnThrows)
  \/ \E spawnThrows \in BOOLEAN : separateAudioReturned(spawnThrows)
  \/ StageNext
  \/ handleTranscribeDone
  \/ onCancel
  \/ \E filePath \in {InputFile, OtherFile} : handleTranscribeAgain(filePath)
  \/ otherRunReturns

SpecLocalShared == InitLocal /\ [][SharedNext]_vars

\* One run and the cancel button, without a later run.
CancelNext ==
  \/ \E options \in ProcessingOptionsSet, spawnThrows \in BOOLEAN :
        handleTranscribe(options, spawnThrows)
  \/ \E spawnThrows \in BOOLEAN : separateAudioReturned(spawnThrows)
  \/ StageNext
  \/ handleTranscribeDone
  \/ onCancel

SpecLocalCancel == InitLocal /\ [][CancelNext]_vars

CloudNext ==
  \/ \E filePath \in {InputFile, MissingFile}, options \in CloudOptionsSet :
        cloudProcessAudio(filePath, options)
  \/ \E outcome \in HeadOutcomes : HeadResponds(outcome)
  \/ \E outcome \in CreateOutcomes : CreateResponds(outcome)
  \/ \E percent \in UploadPercents : UploadProgress(percent)
  \/ \E ok \in BOOLEAN : UploadResponds(ok)
  \/ \E ok \in BOOLEAN : StartResponds(ok)
  \/ \E status \in JobStatuses \cup {"throws"}, reason \in FailureReasons :
        StatusResponds(status, reason)
  \/ PollTimer
  \/ \E outcome \in GetOutcomes : GetResponds(outcome)
  \/ \E options \in OtherCloudOptionsSet : otherProcessAudio(options)

ChanNext ==
  \/ \E kind \in ListenerKinds : onProgress(kind)
  \/ reportProgress

InitChan == ChanInit /\ ChunkerOff /\ ProcOff /\ LocalOff /\ CloudOff /\ NamesOff

SpecChan == InitChan /\ [][ChanNext]_vars

NamesNext ==
  \/ clockAdvances
  \/ \E fileName \in FileNames : runStarts(fileName)
  \/ \E r \in 1 .. MaxRuns : runChoosesObjectKey(r)
  \/ \E r \in 1 .. MaxRuns : runChoosesJobName(r)

InitNames == NamesInit /\ ChunkerOff /\ ProcOff /\ LocalOff /\ CloudOff /\ ChanOff

SpecNames == InitNames /\ [][NamesNext]_vars

InitCloud == CloudInit /\ ChunkerOff /\ ProcOff /\ LocalOff /\ ChanOff /\ NamesOff

SpecCloud == InitCloud /\ [][CloudNext]_vars

(***************************************************************************)
(* C1: for every text and every chunk size >= 1, the chunks returned by    *)
(* splitTextIntoChunks, concatenated in order, are exactly the input text: *)
(* no character is dropped, duplicated or reordered.                       *)
(***************************************************************************)
C1_RoundTrip ==
  ckPc = "returned" => concatAll(ckChunks) = ckText

\* a text that is cut twice, once after a terminator found by the look-ahead
C1_Witness ==
  /\ ckPc = "returned"
  /\ Len(ckChunks) = 3
  /\ ckChunks[1].length > ckSize
  /\ ckText.marks # << >>

(***************************************************************************)
(* C2: every chunk has length at most chunkSize + chunkSize/5, that is     *)
(* 5 * length <= 6 * chunkSize.                                            *)
(***************************************************************************)
C2_ChunkLengthBound ==
  ckPc = "returned" =>
    \A i \in 1 .. Len(ckChunks) : 5 * ckChunks[i].length <= 6 * ckSize

\* a chunk that uses the whole look-ahead window, and a terminator that lies
\* beyond the window of the chunk before it
C2_Witness ==
  /\ ckPc = "returned"
  /\ \E i \in 1 .. Len(ckChunks) :
        /\ ckChunks[i].length > ckSize
        /\ 5 * (ckChunks[i].length + 1) > 6 * ckSize
  /\ \E i \in 1 .. Len(ckChunks) :
        /\ ckChunks[i].length = ckSize
        /\ i < Len(ckChunks)
        /\ ckChunks[i + 1].marks # << >>

(***************************************************************************)
(* Abbreviations used by the properties of the text processor.             *)
(***************************************************************************)
Started == tpPc \in {"awaitAgent", "awaitDirect", "returned", "thrown"}

\* an agent backend is configured for the call and no model is pinned
AgentApplies ==
  IF tpCall.op = "summary"
  THEN /\ tpCall.options.agentId # "" \/ manager.agentId # ""
       /\ tpCall.options.agentAliasId # "" \/ manager.agentAliasId # ""
  ELSE /\ manager.agentId # ""
       /\ manager.agentAliasId # ""
       /\ tpCall.options.model = ""

\* the chunks the chunker makes of the text of the call
ExpectedChunks == splitTextIntoChunks(tpCall.text, ProcChunkSize)

(***************************************************************************)
(* C3: for every text shorter than the chunking threshold (30,000          *)
(* characters) summarizeText and createWeeklyReport never invoke the       *)
(* chunker and issue no chunk-level (or merge-level) backend call: every   *)
(* backend call of the run is a single pass over the whole text.           *)
(***************************************************************************)
C3_SinglePassBelowThreshold ==
  (Started /\ tpCall.text.length < LargeTextThreshold) =>
     /\ tpSplits = 0
     /\ tpChunks = << >>
     /\ \A k \in 1 .. Len(tpLog) :
           tpLog[k].level = "single" /\ tpLog[k].input = tpCall.text

\* a text of 29,999 characters (longer than a chunk) has been processed
C3_Witness ==
  /\ tpPc = "returned"
  /\ tpCall.text.length < LargeTextThreshold
  /\ tpCall.text.length > ProcChunkSize
  /\ Len(tpLog) >= 1

(***************************************************************************)
(* C4: for every text whose length is at or above the chunking threshold   *)
(* (30,000 characters) the returned modelUsed says that chunked            *)
(* processing was applied.                                                 *)
(***************************************************************************)
C4_ChunkedAtOrAboveThreshold ==
  (tpPc = "returned" /\ tpCall.text.length >= LargeTextThreshold) =>
     tpResult.modelUsed.chunked

(***************************************************************************)
(* C5: for a text above the threshold that the chunker splits into N       *)
(* chunks, the backend calls are N chunk-level calls, the k-th on the      *)
(* k-th chunk, then one merge-level call, issued only after every chunk    *)
(* call has answered, on the chunk outputs in order: N+1 calls when the    *)
(* run returns; a text of 40,000 characters gives N = 2 and 3 calls.       *)
(***************************************************************************)
C5_ChunkCallsThenOneMerge ==
  (Started /\ tpCall.text.length > LargeTextThreshold) =>
     LET chunks == ExpectedChunks
         N == Len(chunks)
     IN /\ Len(tpLog) <= N + 1
        /\ \A k \in 1 .. Len(tpLog) :
              /\ tpLog[k].backend = "direct"
              /\ k <= N => tpLog[k].level = "chunk" /\ tpLog[k].input = chunks[k]
              /\ k = N + 1 =>
                    /\ tpLog[k].level = "merge"
                    /\ Len(tpReplies) >= N
                    /\ tpLog[k].input =
                         CombinedText([j \in 1 .. N |-> ExtractOutput(tpReplies[j], j)])
        /\ tpPc = "returned" => Len(tpLog) = N + 1
        /\ tpCall.text.length = 40000 => N = 2

\* a 40,000-character text whose first chunk was extended by the look-ahead
\* has been processed
C5_Witness ==
  /\ tpPc = "returned"
  /\ tpCall.text.length = 40000
  /\ Len(tpLog) = 3
  /\ tpLog[1].input.length > ProcChunkSize

(***************************************************************************)
(* C6: for a text not above the threshold, with an agent configured and    *)
(* no model pinned, the agent is invoked first; if it succeeds the direct  *)
(* model backend is not called and the agent's output is returned; if it   *)
(* fails, the failure is not raised and the direct model backend is        *)
(* called exactly once, its output being returned.                         *)
(***************************************************************************)
C6_AgentFirstThenDirect ==
  (Started /\ tpCall.text.length <= LargeTextThreshold /\ AgentApplies) =>
     /\ tpLog[1].backend = "agent"
     /\ \A k \in 2 .. Len(tpLog) : tpLog[k].backend = "direct"
     /\ Len(tpReplies) >= 1 =>
          IF tpReplies[1] = "completion"
          THEN /\ Len(tpLog) = 1
               /\ tpPc = "returned"
               /\ tpResult.output = BackendOutput(1)
          ELSE /\ Len(tpLog) = 2
               /\ tpLog[2].level = "single"
               /\ tpLog[2].input = tpCall.text
               /\ (Len(tpReplies) = 2 /\ tpReplies[2] # "throws") =>
                     /\ tpPc = "returned"
                     /\ tpResult.output = ExtractOutput(tpReplies[2], 2)
                     /\ tpResult.modelUsed.backend = "Amazon Bedrock"
     /\ tpPc = "thrown" => tpResult.cause = 2

\* the agent failed and the output of the direct call was returned
C6_Witness ==
  /\ tpPc = "returned"
  /\ AgentApplies
  /\ Len(tpReplies) = 2
  /\ tpReplies[1] # "completion"
  /\ tpResult.output = BackendOutput(2)

(***************************************************************************)
(* C7: when a direct model-inference call fails (single pass, chunk level  *)
(* or merge level) the call raises an error: no value is returned and no   *)
(* further backend call is made.                                           *)
(***************************************************************************)
C7_DirectFailureIsRaised ==
  \A k \in 1 .. Len(tpReplies) :
     (tpLog[k].backend = "direct" /\ tpReplies[k] = "throws") =>
        /\ tpPc = "thrown"
        /\ tpResult.kind = "error"
        /\ tpResult.cause = k
        /\ Len(tpLog) = k

\* a chunk-level call after the first one has failed
C7_Witness ==
  /\ tpPc = "thrown"
  /\ Len(tpReplies) >= 2
  /\ tpLog[Len(tpReplies)].level = "chunk"
  /\ tpReplies[Len(tpReplies)] = "throws"

Qualifying(stdout) ==
  {i \in 1 .. Len(stdout) : stdout[i].kind = "object" /\ stdout[i].success # "absent"}

\* the last of them
LastQualifying(stdout) ==
  stdout[CHOOSE i \in Qualifying(stdout) : \A j \in Qualifying(stdout) : j <= i]

\* the close handler with exit code 0 settled the stage
SettledByCleanExit(stage) ==
  /\ stage.promise = "resolved"
  /\ stage.settledBy \notin {"scriptMissing", "spawnThrew", "timeout", "error"}
  /\ stage.code = 0

(***************************************************************************)
(* C9: when the subprocess exits with code 0 and its close handler settles *)
(* the stage, the stage result is the one given by the last stdout line    *)
(* that parses as JSON and contains a success field: it is what the        *)
(* handler returns for a stdout made of that line alone, so no earlier     *)
(* line (progress token, unrelated JSON, earlier success token) and no     *)
(* later non-qualifying line has a say.                                    *)
(***************************************************************************)
C9_LastSuccessTokenWins ==
  /\ (SettledByCleanExit(sep) /\ Qualifying(sep.stdout) # {}) =>
        sep.value = SeparationCloseOutcome(0, <<LastQualifying(sep.stdout)>>,
                                           sep.filePath).value
  /\ (SettledByCleanExit(tr) /\ Qualifying(tr.stdout) # {}) =>
        tr.value = TranscriptionCloseValue(0, <<LastQualifying(tr.stdout)>>,
                                           tr.filePath, lpCall.options.model,
                                           originalFilePath)

\* separation honoured its success token; recognition wrote two success
\* tokens with different transcripts and the later one was returned
C9_Witness ==
  /\ lpPc = "done"
  /\ sep.settledBy = "close:ok"
  /\ sep.value = VocalFile
  /\ SettledByCleanExit(tr)
  /\ tr.stdout = <<TranscriptLine("T1"), TranscriptLine("T2")>>
  /\ lpResult.value.text = "T2"

(***************************************************************************)
(* C10: whatever way the separation stage fails (script missing, spawn     *)
(* failure, timeout, non-zero exit, no authoritative token, token without  *)
(* success or vocal path, vocal file missing on disk), separateAudio       *)
(* resolves with the original asset path, never rejects, and processAudio  *)
(* then runs recognition on the original asset.  While processAudio awaits *)
(* the stage, the failure is read off the events and the stdout; once it   *)
(* has resumed, off the branch that settled the stage.                     *)
(***************************************************************************)
SeparationFailed ==
  /\ sep.promise = "resolved"
  /\ \/ sep.settledBy \in {"scriptMissing", "spawnThrew", "error", "timeout"}
     \/ sep.code # 0
     \/ Qualifying(sep.stdout) = {}
     \/ LastQualifying(sep.stdout).success # "true"
     \/ LastQualifying(sep.stdout).vocal_path = ""
     \/ LastQualifying(sep.stdout).vocal_path \notin ExistingFiles

C10_SeparationFailureFallsBack ==
  /\ sep.promise \in {"none", "pending", "resolved"}
  /\ (lpPc = "separating" /\ SeparationFailed) =>
        /\ sep.value = lpCall.filePath
        /\ sep.settledBy # "close:ok"
  /\ (lpPc \in {"recognizing", "done"} /\ lpCall.options.enableAudioSeparation
        /\ sep.settledBy # "close:ok") =>
        /\ sep.value = lpCall.filePath
        /\ tr.promise # "none"
        /\ tr.filePath = lpCall.filePath
        /\ audioFilePath = lpCall.filePath

\* the success token named a vocal file that is not on disk, and recognition
\* has run on the original asset
C10_Witness ==
  /\ lpPc = "done"
  /\ sep.settledBy = "close:missing-file"
  /\ tr.filePath = InputFile
  /\ tr.settledBy = "close"

(***************************************************************************)
(* C11: when the separation subprocess has neither exited nor written a    *)
(* progress token for a full timeout window (180 s), the runner kills it   *)
(* and separateAudio resolves with the original asset path: the quiet time *)
(* of a live subprocess never passes the window, and once the window has   *)
(* elapsed and its timer has run the process is killed and the promise     *)
(* holds the original path.                                                *)
(***************************************************************************)
C11_QuietWindowEndsInFallback ==
  /\ SeparationTimeoutMs = 180000
  /\ sep.quiet <= SeparationTimeoutMs
  /\ (sep.proc = "running" /\ ~ sep.killed) => sep.timer = "armed"
  /\ (sep.proc = "running" /\ sep.quiet >= SeparationTimeoutMs /\ ~ TimerDue(sep)) =>
        /\ sep.killed
        /\ sep.promise = "resolved"
        /\ sep.settledBy = "timeout"
        /\ sep.value = lpCall.filePath

\* the subprocess wrote a line that is no progress token, stayed quiet for
\* the whole window and was killed before it exited
C11_Witness ==
  /\ lpPc = "separating"
  /\ sep.stdout = <<PrimitiveLine>>
  /\ sep.settledBy = "timeout"
  /\ sep.killed
  /\ sep.proc = "running"
  /\ sep.quiet = SeparationTimeoutMs
  /\ sep.value = InputFile

(***************************************************************************)
(* C12: a recognition subprocess that never writes an authoritative token  *)
(* (for example it hangs without exiting) does not keep transcribeAudio    *)
(* pending forever: a pending transcribeAudio call either sees such a      *)
(* token or is eventually resolved.                                        *)
(***************************************************************************)
C12_RecognitionEventuallyResolves ==
  (tr.promise = "pending") ~>
     (tr.promise = "resolved" \/ LastValidJson(tr.stdout) # NoJson)

(***************************************************************************)
(* C13: a local processAudio call never rejects.  Whatever way recognition *)
(* fails (script missing, spawn failure, non-zero exit, no authoritative   *)
(* token, token with success false, unparsable output), the call returns   *)
(* one result whose text is a non-empty explanation (no transcript) and    *)
(* whose segments list is empty; neither stage's promise is ever rejected. *)
(***************************************************************************)
Transcripts == {"T1", "T2"}

RecognitionFailed ==
  /\ tr.promise = "resolved"
  /\ \/ tr.settledBy \in {"scriptMissing", "spawnThrew", "error"}
     \/ tr.code # 0
     \/ LastValidJson(tr.stdout) = NoJson
     \/ LastValidJson(tr.stdout).success # "true"

C13_RecognitionFailureIsSoft ==
  /\ tr.promise \in {"none", "pending", "resolved"}
  /\ lpResult.kind \in {"none", "value"}
  /\ (lpPc = "done") <=> (lpResult.kind = "value")
  /\ (lpPc = "done") => lpResult.value = tr.value
  /\ (lpPc = "done" /\ RecognitionFailed) =>
        /\ lpResult.value.text # ""
        /\ lpResult.value.text \notin Transcripts
        /\ lpResult.value.segments = "none"

\* the subprocess exited with code 0 after writing only a line that is not
\* JSON, and processAudio returned the explanation
C13_Witness ==
  /\ lpPc = "done"
  /\ tr.settledBy = "close"
  /\ tr.code = 0
  /\ tr.stdout = <<TextLine>>
  /\ lpResult.value.text = "E:no-json"
  /\ lpResult.value.segments = "none"

(***************************************************************************)
(* C15, as claimed: a subprocess that wrote an authoritative token and     *)
(* then exits with a non-zero code still has its token honoured:           *)
(* separation resolves with the token's vocal path, recognition with the   *)
(* token's transcript.                                                     *)
(***************************************************************************)
SettledByFailedExit(stage) ==
  /\ stage.promise = "resolved"
  /\ stage.settledBy \notin {"scriptMissing", "spawnThrew", "timeout", "error"}
  /\ stage.code # 0

GoodVocalToken(stdout) ==
  /\ LastValidJson(stdout) # NoJson
  /\ LastValidJson(stdout).success = "true"
  /\ LastValidJson(stdout).vocal_path \in ExistingFiles

GoodTranscriptToken(stdout) ==
  /\ LastValidJson(stdout) # NoJson
  /\ LastValidJson(stdout).success = "true"
  /\ LastValidJson(stdout).result \in Transcripts

C15_TokenHonouredAfterFailedExit ==
  /\ (SettledByFailedExit(sep) /\ GoodVocalToken(sep.stdout)) =>
        sep.value = LastValidJson(sep.stdout).vocal_path
  /\ (SettledByFailedExit(tr) /\ GoodTranscriptToken(tr.stdout)) =>
        tr.value.text = LastValidJson(tr.stdout).result

(***************************************************************************)
(* C15, amended: a non-zero exit code overrides an authoritative token     *)
(* written before it: separation resolves with the original asset path and *)
(* recognition with a soft-fail result (an explanation as text, no         *)
(* segments), whatever the token said.                                     *)
(***************************************************************************)
C15_FailedExitOverridesToken ==
  /\ (SettledByFailedExit(sep) /\ GoodVocalToken(sep.stdout)) =>
        sep.value = sep.filePath
  /\ (SettledByFailedExit(tr) /\ GoodTranscriptToken(tr.stdout)) =>
        /\ tr.value.text \notin Transcripts
        /\ tr.value.text # ""
        /\ tr.value.segments = "none"

\* recognition wrote a transcript token and exited with code 1: the call
\* returned the explanation, not the transcript
C15_Witness ==
  /\ lpPc = "done"
  /\ SettledByFailedExit(tr)
  /\ tr.code = 1
  /\ tr.stdout = <<TranscriptLine("T1")>>
  /\ lpResult.value.text = "E:exit-code"

(***************************************************************************)
(* C16, as claimed: when the recognition subprocess cannot be spawned,     *)
(* transcribeAudio fails with an error instead of resolving with a result. *)
(***************************************************************************)
RecognitionSpawnFailed == tr.settledBy \in {"error", "spawnThrew"}

C16_SpawnFailureIsHardError ==
  RecognitionSpawnFailed => tr.promise = "rejected"

(***************************************************************************)
(* C16, amended: when the recognition subprocess cannot be spawned (spawn  *)
(* throws, or the 'error' event arrives), transcribeAudio resolves with a  *)
(* soft-fail result whose text explains the failure and whose segments are *)
(* empty; its promise is never rejected, and processAudio returns that     *)
(* result.                                                                 *)
(***************************************************************************)
C16_SpawnFailureIsSoft ==
  /\ tr.promise # "rejected"
  /\ RecognitionSpawnFailed =>
        /\ tr.promise = "resolved"
        /\ tr.value.text \in {"E:spawn", "E:unexpected"}
        /\ tr.value.segments = "none"
  /\ (RecognitionSpawnFailed /\ lpPc = "done") => lpResult.value = tr.value

\* the 'error' event settled recognition and processAudio returned the
\* explanation
C16_Witness ==
  /\ lpPc = "done"
  /\ tr.settledBy = "error"
  /\ lpResult.value.text = "E:spawn"
  /\ lpResult.value.segments = "none"

(***************************************************************************)
(* C17: a local run requested with separation disabled returns             *)
(* audioSeparationUsed = false and, when recognition succeeds, the text    *)
(* and segments of the recognised transcript, whatever other processAudio  *)
(* calls start or finish on the same manager meanwhile.                    *)
(***************************************************************************)
C17_NoSeparationFlagWhenDisabled ==
  (lpPc = "done" /\ ~ lpCall.options.enableAudioSeparation) =>
     /\ ~ lpResult.value.audioSeparationUsed
     /\ (SettledByCleanExit(tr) /\ GoodTranscriptToken(tr.stdout)) =>
           /\ lpResult.value.text = LastValidJson(tr.stdout).result
           /\ lpResult.value.segments = LastValidJson(tr.stdout).result

(***************************************************************************)
(* C18: at most one pipeline run is in flight at any time: a transcription *)
(* request that arrives while an earlier run has not finished is not       *)
(* started until the earlier run has completed.                            *)
(***************************************************************************)
FirstRunInFlight == lpPc \in {"separating", "recognizing"}

C18_AtMostOneRunInFlight ==
  ~ (FirstRunInFlight /\ otherRun = "running")

(***************************************************************************)
(* C14 as stated: a cloud run that fails (initialisation, provisioning,    *)
(* upload, job submission, job FAILED, polling budget used up) ends with a *)
(* result whose text carries the error, and neither processAudio nor the   *)
(* 'transcribe-audio' handler throws.                                      *)
(***************************************************************************)
\* the run ended without reaching the point where the transcript has been
\* requested and answered, which is where 'complete' is reported
RunFailed ==
  /\ cpPc = "done"
  /\ \/ cpProgress = << >>
     \/ cpProgress[Len(cpProgress)].stage # "complete"

FailedSteps == {"initializeClients", "uploadFileToS3", "transcribeAudio"}

C19_RunKeepsItsRegionAndBucket ==
  /\ \A i \in 1..Len(cpLog) :
        /\ cpLog[i].client = cpCall.region
        /\ cpLog[i].bucket = DefaultBucket(cpCall.region)
        /\ cpLog[i].location \in {"", cpCall.region}
  /\ cpQueryRegions \subseteq {cpCall.region}
  /\ cpS3Uri # << >> => cpS3Uri[1] = DefaultBucket(cpCall.region)

(***************************************************************************)
(* C20: pollJobCompletion sends at most maxAttempts = 60 status queries,   *)
(* one per interval of 5 s: while it polls, the queries sent are one more  *)
(* than the intervals slept.  When the budget is used up without a         *)
(* COMPLETED or FAILED answer the run ends with the timeout error, and    *)
(* that error comes only after 60 queries and 60 intervals.                *)
(***************************************************************************)
TimedOut ==
  /\ cpPc = "done"
  /\ cpResult.kind = "threw"
  /\ cpResult.message = <<"transcribeAudio", "timeout">>

C20_PollingIsBounded ==
  /\ MaxAttempts = 60
  /\ IntervalSeconds = 5
  /\ cpQueries <= MaxAttempts
  /\ cpSlept = (IntervalSeconds * 1000) * (IF TimedOut THEN cpQueries
                                           ELSE IF cpQueries = 0 THEN 0
                                           ELSE cpQueries - 1)
  /\ cpPc \in {"status", "sleep"} => cpAttempt < MaxAttempts /\ cpQueries = cpAttempt + 1
  /\ cpAttempt >= MaxAttempts => TimedOut
  /\ TimedOut => cpQueries = MaxAttempts

C20_Witness ==
  /\ TimedOut
  /\ cpQueries = 60
  /\ cpSlept = 300000
  /\ hdResult.kind = "threw"

(***************************************************************************)
(* C21: polling stops at the first terminal status.  After COMPLETED no    *)
(* further status query is sent and the result is requested once; after    *)
(* FAILED no further status query and no result request is sent, and the   *)
(* error raised carries the failure reason of the provider verbatim.       *)
(***************************************************************************)
Fetches == {i \in 1..Len(cpLog) : cpLog[i].op = "GetObject"}

ProcessingPercentsOrdered ==
  \A i, j \in 1..Len(cpProgress) :
     (i <= j /\ cpProgress[i].stage = "processing" /\ cpProgress[j].stage = "processing")
        => /\ cpProgress[i].percent <= cpProgress[j].percent
           /\ cpProgress[j].percent <= 90

\* the event at position i came after COMPLETED and after the answer to the
\* request for the result
AfterRetrieval(i) ==
  /\ cpTerminal.status = "COMPLETED"
  /\ Fetches # {}
  /\ cpPc = "done"
  /\ i = Len(cpProgress)

C22_ProcessingPercentsAndFinal100 ==
  /\ ProcessingPercentsOrdered
  /\ \A i \in 1..Len(cpProgress) : cpProgress[i].percent = 100 => AfterRetrieval(i)

(***************************************************************************)
(* C22, amended: within one cloud run the percents published for stage     *)
(* 'processing' are non-decreasing and never above 90, and outside stage   *)
(* 'uploading', whose percent is that of the upload, percent 100 is        *)
(* published only after the job has been seen COMPLETED and the result     *)
(* retrieval has been performed.                                           *)
(***************************************************************************)
C22_ProcessingPercentsAndFinal100AfterUpload ==
  /\ ProcessingPercentsOrdered
  /\ \A i \in 1..Len(cpProgress) :
        /\ cpProgress[i].stage = "processing" => cpProgress[i].percent < 100
        /\ (cpProgress[i].percent = 100 /\ cpProgress[i].stage # "uploading")
              => cpProgress[i].stage = "complete" /\ AfterRetrieval(i)
        /\ cpProgress[i].stage = "complete" => cpProgress[i].percent = 100

C22_Witness ==
  /\ cpPc = "done"
  /\ cpTerminal.queries = 3
  /\ cpProgress = <<[stage |-> "uploading", percent |-> 100],
                    [stage |-> "processing", percent |-> 0],
                    [stage |-> "processing", percent |-> 10],
                    [stage |-> "processing", percent |-> 11],
                    [stage |-> "processing", percent |-> 13],
                    [stage |-> "processing", percent |-> 90],
                    [stage |-> "complete", percent |-> 100]>>

(***************************************************************************)
(* C23: once the job is COMPLETED, a failure to fetch the result object or *)
(* to parse it never raises: the run returns a result whose text embeds    *)
(* the job name and the error text.  Every result returned after           *)
(* completion, retrieved or not, carries an awsJobId that is not empty and *)
(* is the job name submitted.                                              *)
(***************************************************************************)
Embeds(text, part) == \E i \in 1..Len(text) : text[i] = part

AlreadyExistsReports == {"BucketAlreadyExists", "BucketAlreadyOwnedByYou"}

Sent(op) == \E i \in 1..Len(cpLog) : cpLog[i].op = op

ProvisioningFailedBy(cause) ==
  /\ cpPc = "done"
  /\ cpResult.kind = "threw"
  /\ cpResult.message = <<"initializeClients", "ensureBucketExists", cause>>

C24_AlreadyExistsIsSuccess ==
  /\ Sent("Upload") => Sent("HeadBucket")
  /\ cpPc = "create" => Sent("CreateBucket")
  /\ \A cause \in AlreadyExistsReports : ~ ProvisioningFailedBy(cause)

(***************************************************************************)
(* C25: every progress event published is delivered, within the publish,   *)
(* exactly once to every listener subscribed before it, in the order of    *)
(* subscription; a listener subscribed after an event never receives it.   *)
(***************************************************************************)
DeliveriesOf(event) ==
  LET IsOf(d) == d.event = event IN SelectSeq(chDelivered, IsOf)

C25_FanOutToEverySubscriber ==
  \A event \in 1..Len(chEvents) :
     /\ Len(DeliveriesOf(event)) = chEvents[event].subscribed
     /\ \A i \in 1..Len(DeliveriesOf(event)) : DeliveriesOf(event)[i].listener = i

(***************************************************************************)
(* C26: within one run started by the user the stages follow the order     *)
(* separation (only when enabled), recognition, complete, and none is      *)
(* entered twice: separation runs at most once and recognition exactly     *)
(* once.                                                                   *)
(***************************************************************************)
IsPrefix(s, t) == Len(s) <= Len(t) /\ \A i \in 1..Len(s) : s[i] = t[i]

StageOrder(options) ==
  IF options.enableAudioSeparation
  THEN <<"separation", "recognition", "complete">>
  ELSE <<"recognition", "complete">>

C26_StagesInOrderOnce ==
  /\ IsPrefix(runStages, StageOrder(lpCall.options))
  /\ lpPc = "done" => runStages = StageOrder(lpCall.options)

(***************************************************************************)
(* C27: every stage transition of a run publishes a progress event: on     *)
(* the local path entering separation, entering recognition and reaching   *)
(* complete.  Checked when the run has ended: an event was published, and  *)
(* there are at least as many events as there were transitions.            *)
(***************************************************************************)
C27_EveryTransitionPublishes ==
  lpPc = "done" =>
     /\ progressSent # << >>
     /\ Len(progressSent) >= Len(runStages)

(***************************************************************************)
(* C28: the direct model request has the payload shape the active model    *)
(* identifier expects: the messages form for the models of the anthropic   *)
(* messages family, the prompt/completion form for legacy models, on the   *)
(* summary path and on the weekly-report path.                             *)
(***************************************************************************)
MessagesModels == {DefaultModelId}

ExpectedPayload(modelId) == IF modelId \in MessagesModels THEN "messages" ELSE "prompt"

C28_PayloadShapeFollowsModel ==
  \A i \in 1..Len(tpLog) :
     tpLog[i].backend = "direct" => tpLog[i].payload = ExpectedPayload(tpLog[i].target)

(***************************************************************************)
(* C29: in chunked mode, when an agent backend is configured and no model  *)
(* is pinned, each chunk is given to the agent first: a direct model call  *)
(* for a chunk comes only right after a call of the agent for that chunk.  *)
(***************************************************************************)
C29_AgentFirstForEachChunk ==
  (Started /\ IsLargeText(tpCall.text) /\ AgentApplies) =>
     \A k \in 1 .. Len(tpLog) :
        (tpLog[k].backend = "direct" /\ tpLog[k].level = "chunk") =>
           /\ k > 1
           /\ tpLog[k - 1].backend = "agent"
           /\ tpLog[k - 1].input = tpLog[k].input

(***************************************************************************)
(* C30: any two distinct cloud runs use distinct upload object keys and    *)
(* distinct job names, hence distinct result objects, whatever their start *)
(* times and also when both upload a file of the same name.                *)
(***************************************************************************)
C30_DistinctRunsDistinctNames ==
  \A i, j \in 1 .. Len(cloudRuns) :
     i # j =>
       /\ (cloudRuns[i].objectKey # NoName /\ cloudRuns[j].objectKey # NoName) =>
             cloudRuns[i].objectKey # cloudRuns[j].objectKey
       /\ (cloudRuns[i].jobName # NoName /\ cloudRuns[j].jobName # NoName) =>
             /\ cloudRuns[i].jobName # cloudRuns[j].jobName
             /\ transcriptFileName(cloudRuns[i].jobName) # transcriptFileName(cloudRuns[j].jobName)

(***************************************************************************)
(* C31: a region is entered in createdBuckets only after its bucket has    *)
(* been verified to exist or been created: while the run still waits for   *)
(* the answer to HeadBucket or CreateBucket its region is not in the       *)
(* cache, a run whose provisioning fails leaves the cache as it found it,  *)
(* and a run against a cached region uses the bucket of that region.       *)
(***************************************************************************)
ProvisioningFailed ==
  /\ cpPc = "done"
  /\ cpResult.kind = "threw"
  /\ Len(cpResult.message) = 3
  /\ cpResult.message[2] = "ensureBucketExists"

C31_CachedOnlyAfterProvisioning ==
  cpOthers = << >> =>
     /\ cpPc \in {"head", "create"} => cpCall.region \notin createdBuckets
     /\ ProvisioningFailed => createdBuckets = {}
     /\ (cpPc # "idle" /\ cpCall.region \in createdBuckets) =>
           aws.bucketName = DefaultBucket(cpCall.region)

(***************************************************************************)
(* C32: for every text and every chunk size >= 1 the call of               *)
(* splitTextIntoChunks returns after at most one turn of its loop per      *)
(* character of the text: every chunk it returns is non-empty, there are   *)
(* at most as many chunks as characters, and the empty string yields zero  *)
(* chunks.                                                                 *)
(***************************************************************************)
C32_TerminatesWithNonEmptyChunks ==
  ckPc = "returned" =>
    /\ \A i \in 1 .. Len(ckChunks) : ckChunks[i].length >= 1
    /\ Len(ckChunks) <= ckText.length
    /\ ckText.length = 0 => ckChunks = << >>

\* a text with a terminator cut into chunks of one character each
C32_Witness ==
  /\ ckPc = "returned"
  /\ ckSize = 1
  /\ ckText.length >= 3
  /\ ckText.marks # << >>
  /\ Len(ckChunks) = ckText.length

(***************************************************************************)
(* C33: a chunk that is not the last one, starting at s with hard boundary *)
(* e = s + chunkSize, ends right after the nearest terminator at or after  *)
(* e when that terminator ends within the look-ahead window                *)
(* (index + 1 <= e + chunkSize/5), and exactly at e otherwise.             *)
(***************************************************************************)
RECURSIVE StartOfChunk(_, _)
StartOfChunk(chunks, i) ==
  IF i = 1 THEN 0 ELSE StartOfChunk(chunks, i - 1) + chunks[i - 1].length

TerminatorsFrom(text, e) ==
  {p \in DOMAIN text.marks : p >= e /\ text.marks[p] \in Terminators}

InWindow(text, e, chunkSize) ==
  /\ TerminatorsFrom(text, e) # {}
  /\ 5 * (MinOf(TerminatorsFrom(text, e)) + 1) <= 5 * e + chunkSize

C33_CutAfterNearestTerminatorInWindow ==
  ckPc = "returned" =>
    \A i \in 1 .. Len(ckChunks) - 1 :
       LET s == StartOfChunk(ckChunks, i)
           e == s + ckSize
       IN s + ckChunks[i].length =
            IF InWindow(ckText, e, ckSize)
            THEN MinOf(TerminatorsFrom(ckText, e)) + 1
            ELSE e

\* one chunk ends after a terminator that lies beyond its hard boundary, and
\* another ends at its hard boundary although a terminator follows, outside
\* the window
C33_Witness ==
  /\ ckPc = "returned"
  /\ \E i \in 1 .. Len(ckChunks) - 1 :
        /\ InWindow(ckText, StartOfChunk(ckChunks, i) + ckSize, ckSize)
        /\ ckChunks[i].length > ckSize
  /\ \E i \in 1 .. Len(ckChunks) - 1 :
        /\ ~ InWindow(ckText, StartOfChunk(ckChunks, i) + ckSize, ckSize)
        /\ TerminatorsFrom(ckText, StartOfChunk(ckChunks, i) + ckSize) # {}
        /\ ckChunks[i].length = ckSize

(***************************************************************************)
(* C34: the separation timer is armed anew, for a full window, by every    *)
(* stdout chunk that holds a progress token: while the subprocess runs,    *)
(* the time the timer has waited is the time since the start or since the  *)
(* last such chunk.  The timer fires only when that time is a full window, *)
(* never while progress tokens arrive less than a window apart.            *)
(***************************************************************************)
C34_TimerRearmedByProgress ==
  /\ (sep.proc = "running" /\ ~ sep.killed) =>
        /\ sep.timer = "armed"
        /\ sep.waited = sep.quiet
  /\ (sep.timer = "fired" /\ lpPc = "separating") =>
        /\ sep.quiet >= SeparationTimeoutMs
        /\ sep.settledBy = "timeout"

\* the timer fired a full window after the last progress token
C34_Witness ==
  /\ sep.timer = "fired"
  /\ lpPc = "separating"
  /\ sep.stdout = <<PrimitiveLine, ProgressLine>>
  /\ sep.quiet = SeparationTimeoutMs
  /\ sep.killed

(***************************************************************************)
(* C35: in chunked mode every chunk-level call asks for a short output,    *)
(* whatever the caller asked for, and the one final pass, whose input is   *)
(* the chunk outputs in chunk order joined by the divider, asks for what   *)
(* the caller asked for; on the summary path and on the weekly-report path.*)
(***************************************************************************)
C35_ShortChunksThenRequestedFinal ==
  \A k \in 1 .. Len(tpLog) :
     /\ tpLog[k].level = "chunk" => tpLog[k].request = "short"
     /\ tpLog[k].level = "merge" =>
           /\ tpLog[k].request = tpCall.request
           /\ tpLog[k].input = CombinedText(tpSummaries)
           /\ Len(tpSummaries) = Len(tpChunks)
           /\ \A j \in 1 .. Len(tpSummaries) :
                 tpSummaries[j] = ExtractOutput(tpReplies[j], j)

(***************************************************************************)
(* C36: when the user cancels a run, only the renderer's processing flag   *)
(* is reset: the step changes nothing of the run (no subprocess is killed, *)
(* no promise settled, no stage left), so the run goes on as before; and   *)
(* when a cancelled run completes, its result becomes the renderer's       *)
(* transcription result and the progress stage becomes 'complete'.         *)
(***************************************************************************)
C36_CancelOnlyResetsFlag ==
  [][ /\ (~ cancelled /\ cancelled') =>
            /\ isProcessing /\ ~ isProcessing'
            /\ UNCHANGED <<lpPc, lpCall, sep, tr, audioFilePath, originalFilePath,
                           progressSent, lpResult, runStages, otherRun,
                           transcriptionResult, progress>>
      /\ (cancelled /\ lpPc # "done" /\ lpPc' = "done") =>
            /\ lpResult'.kind = "value"
            /\ transcriptionResult' = lpResult'
            /\ progress' = "complete" ]_vars

\* a run cancelled while its recognition subprocess ran has completed with
\* the transcript of that subprocess, which is the renderer's result
C36_Witness ==
  /\ cancelled
  /\ lpPc = "done"
  /\ otherRun = "none"
  /\ tr.settledBy = "close"
  /\ ~ sep.killed
  /\ lpResult.kind = "value"
  /\ lpResult.value.text = "T1"
  /\ transcriptionResult = lpResult
  /\ progress = "complete"

(***************************************************************************)
(* C37: the separation stage delivers exactly one result per call whatever *)
(* the order of its timeout, close and error events: once its promise is   *)
(* resolved no later event changes the value (after the timeout resolved   *)
(* it with the original path, a close with exit code 0 and a valid success *)
(* token changes nothing), and that value is what the awaiting code gets.  *)
(***************************************************************************)
C37_FirstSettlementStands ==
  [][ /\ sep.promise = "resolved" =>
            /\ sep'.promise = "resolved"
            /\ sep'.value = sep.value
            /\ sep'.settledBy = sep.settledBy
      /\ (lpPc = "separating" /\ lpPc' = "recognizing") =>
            /\ sep.promise = "resolved"
            /\ audioFilePath' = sep.value ]_vars

\* the timeout resolved the promise with the original path, and the
\* subprocess then closed with exit code 0 after a valid success token
C37_Witness ==
  /\ lpPc = "separating"
  /\ sep.settledBy = "timeout"
  /\ sep.value = InputFile
  /\ sep.proc = "closed"
  /\ sep.code = 0
  /\ sep.stdout = <<VocalLine(VocalFile)>>
  /\ SeparationCloseOutcome(0, sep.stdout, sep.filePath).value = VocalFile

(***************************************************************************)
(* C38: when the direct model backend answers without error and the        *)
(* response has neither a content[0].text nor a completion, the direct     *)
(* call does not raise: it returns normally and its summary / report is    *)
(* the fixed placeholder sentence.                                         *)
(***************************************************************************)
NoAnswer == {"neither", "noText"}

C38_PlaceholderInsteadOfError ==
  \A k \in 1 .. Len(tpReplies) :
     (tpLog[k].backend = "direct" /\ tpReplies[k] \in NoAnswer) =>
        /\ ~ (tpPc = "thrown" /\ tpResult.cause = k)
        /\ tpLog[k].level = "chunk" => tpSummaries[k] = Placeholder
        /\ tpLog[k].level \in {"single", "merge"} =>
              /\ tpPc = "returned"
              /\ tpResult.output = Placeholder


(***************************************************************************)
(* C39: an error thrown by a status query during polling aborts the wait   *)
(* immediately.  It is rethrown without any further status query, sleep or *)
(* retry, even when attempts remain in the budget, no result is requested, *)
(* and the cloud run fails.                                                *)
(***************************************************************************)
C39_ThrownStatusQueryAbortsPolling ==
  cpTerminal.status = "throws" =>
     /\ cpPc = "done"
     /\ cpQueries = cpTerminal.queries
     /\ cpSlept = IntervalSeconds * 1000 * (cpQueries - 1)
     /\ Fetches = {}
     /\ cpResult.kind = "threw"
     /\ cpResult.message = <<"transcribeAudio", "StatusFailed">>
     /\ hdResult.kind = "threw"

C39_Witness ==
  /\ cpTerminal.status = "throws"
  /\ cpTerminal.queries = 2
  /\ cpQueries < MaxAttempts
  /\ cpPc = "done"
  /\ cpResult.kind = "threw"


(***************************************************************************)
(* C40: the region of the cloud manager persists across runs.  After any   *)
(* number of runs started on the manager its region is the awsRegion of    *)
(* the most recent run whose request carried one, ap-northeast-1 if none   *)
(* did, so a run whose request carries no awsRegion works in the region    *)
(* left by the runs before it; the bucket name and the HeadBucket request  *)
(* of the run are derived from that region.                                *)
(***************************************************************************)
RunsStarted == IF cpPc = "idle" THEN << >> ELSE <<cpCall.options>> \o cpOthers

RECURSIVE RegionAfter(_)
RegionAfter(runs) ==
  IF runs = << >> THEN "ap-northeast-1"
  ELSE IF runs[Len(runs)].awsRegion # "" THEN runs[Len(runs)].awsRegion
  ELSE RegionAfter(SubSeq(runs, 1, Len(runs) - 1))

C40_RegionPersistsAcrossRuns ==
  /\ aws.region = RegionAfter(RunsStarted)
  /\ cpPc # "idle" =>
        /\ aws.bucketName = <<"transcribe-audio-temp-rkuros", aws.region>>
        /\ cpCall.region = RegionAfter(<<cpCall.options>>)
        /\ cpLog[1] = Request("HeadBucket", cpCall.region,
                              <<"transcribe-audio-temp-rkuros", cpCall.region>>, "")

C40_Witness ==
  /\ cpPc # "idle"
  /\ cpCall.options.awsRegion = "us-east-1"
  /\ cpOthers = <<[model |-> "aws-transcribe", awsRegion |-> ""]>>
  /\ aws.region = "us-east-1"
  /\ aws.bucketName = <<"transcribe-audio-temp-rkuros", "us-east-1">>

=============================================================================
